---- MODULE Spec2Model ----
(***************************************************************************)
(* A model of tox_config_reader.substitutions: the placeholder engine that *)
(* resolves {...} expressions in tox configuration strings.                *)
(*                                                                         *)
(* A Python str is a sequence of one-character strings; indices in the     *)
(* operators below are Python's (0-based), so the arithmetic of the source *)
(* (start + 1, end + 1, sub_type[8:-1]) is carried over unchanged.         *)
(***************************************************************************)
EXTENDS Integers, Sequences, FiniteSets, TLC

VARIABLES
    text,        \* the `value` argument of the running substitute_string call
    config,      \* the `config` argument (a tagged dict value)
    posargs,     \* the `posargs` argument (a sequence of str)
    environ,     \* the `environ` argument (a function str -> str)
    isatty,      \* what sys.stdin.isatty() answers during the call
    value,       \* the local `value` of substitute_string
    prev_value,  \* the local `prev_value` of substitute_string
    iter,        \* iterations of the for loop entered so far
    pc,          \* "loop" | "done" | "raised"
    result,      \* what the call returned or raised
    ncall,       \* 1 for the first call, 2 for the call on its result
    first,       \* the first call's outcome, kept for the second call
    arg,         \* the `value` argument of the running substitute_value call
    vpc,         \* "idle" | "call" | "items" | "done" | "raised"
    item,        \* items of a list argument the for loop has taken so far
    out,         \* the local `result` list of substitute_value
    resolved,    \* what _resolve_toml_inline_substitution returned last
    vresult,     \* what the substitute_value call returned or raised
    directory,   \* the directory find_config_file searches, with its files
    probe,       \* readers of CONFIG_READERS asked so far, in order
    located      \* what find_config_file returned or raised

\* the locals of a substitute_string call
callVars == <<text, value, prev_value, iter, pc, result, ncall, first>>

\* the locals of a substitute_value call
valueVars == <<arg, vpc, item, out, resolved, vresult>>

\* the locals of a find_config_file call
finderVars == <<directory, probe, located>>

vars == <<text, config, posargs, environ, isatty, value, prev_value, iter,
          pc, result, ncall, first, arg, vpc, item, out, resolved, vresult,
          directory, probe, located>>

-----------------------------------------------------------------------------
(* Python values *)

None == <<"None">>          \* no str holds a several-character element

VStr(s)  == [tag |-> "str",  val |-> s]
VDict(f) == [tag |-> "dict", val |-> f]
VList(l) == [tag |-> "list", val |-> l]
VInt(n)  == [tag |-> "int",  val |-> n]
VNone    == [tag |-> "none", val |-> 0]

VBool(b) == [tag |-> "bool", val |-> b]

EmptyDict == VDict(<<>>)

\* the pair (resolved_value, extend_flag), or the exception raised instead
Resolved(v, e) == [exc |-> "", val |-> v, extend |-> e]

\* no inline table resolved yet
NoneResolved == Resolved(VNone, FALSE)

\* no find_config_file call is running
NoDirectory == [name |-> "", files |-> <<>>]
NotSearching == [state |-> "idle", exc |-> "", path |-> <<>>, reader |-> "",
                 message |-> <<>>]

\* what substitute_value gives: an object built by the call, the argument
\* itself (aliased when it is a list or a mapping), or an exception
Made(v)   == [exc |-> "", val |-> v, aliased |-> FALSE]
AsIs(v)   == [exc |-> "", val |-> v, aliased |-> v.tag \in {"list", "dict"}]
Failed(e) == [exc |-> e, val |-> VNone, aliased |-> FALSE]

\* the outcome of a call: a returned str, or the exception that left it
Ok(s)    == [exc |-> "", val |-> s]
Raise(e) == [exc |-> e,  val |-> <<>>]

-----------------------------------------------------------------------------
(* str primitives *)

At(s, i) == s[i + 1]                                   \* s[i]

Slice(s, a, b) == SubSeq(s, a + 1, b)                  \* s[a:b], 0 <= a, b <= len

StartsWith(s, p) == Len(s) >= Len(p) /\ SubSeq(s, 1, Len(p)) = p

EndsWith(s, p) == Len(s) >= Len(p) /\ SubSeq(s, Len(s) - Len(p) + 1, Len(s)) = p

\* c in s, for a one-character c
HasChar(s, c) == \E i \in 1..Len(s) : s[i] = c

\* sub in s, for str operands
Contains(s, sub) ==
    \E i \in 0..(Len(s) - Len(sub)) : SubSeq(s, i + 1, i + Len(sub)) = sub

\* s.find(c): the least index of c, or -1
Find(s, c) ==
    IF HasChar(s, c)
    THEN (CHOOSE i \in 1..Len(s) : s[i] = c /\ \A j \in 1..(i - 1) : s[j] # c) - 1
    ELSE -1

RECURSIVE Join(_, _)
\* sep.join(parts)
Join(sep, parts) ==
    IF parts = <<>> THEN <<>>
    ELSE IF Len(parts) = 1 THEN parts[1]
    ELSE parts[1] \o sep \o Join(sep, Tail(parts))

RECURSIVE Split(_, _)
RECURSIVE SplitAt(_, _, _)
\* s.split(c)
Split(s, c) == SplitAt(s, c, Find(s, c))

\* s split at the first c, found at index k (-1: none), and the rest split on
SplitAt(s, c, k) ==
    IF k = -1 THEN <<s>>
    ELSE <<Slice(s, 0, k)>> \o Split(Slice(s, k + 1, Len(s)), c)

\* s split at index k only
SplitOnceAt(s, k) ==
    IF k = -1 THEN <<s>>
    ELSE <<Slice(s, 0, k), Slice(s, k + 1, Len(s))>>

\* s.split(c, 1)
SplitOnce(s, c) == SplitOnceAt(s, Find(s, c))

Whitespace == {" ", "\t", "\n", "\r"}

Digits == <<"0", "1", "2", "3", "4", "5", "6", "7", "8", "9">>

IsDigit(c) == \E d \in 1..Len(Digits) : Digits[d] = c

DigitValue(c) == (CHOOSE d \in 1..Len(Digits) : Digits[d] = c) - 1

RECURSIVE Strip(_)
\* s.strip()
Strip(s) ==
    IF s = <<>> THEN s
    ELSE IF s[1] \in Whitespace THEN Strip(Tail(s))
    ELSE IF s[Len(s)] \in Whitespace THEN Strip(SubSeq(s, 1, Len(s) - 1))
    ELSE s

RECURSIVE DigitsValue(_, _)
DigitsValue(s, acc) ==
    IF s = <<>> THEN acc
    ELSE IF s[1] = "_" THEN DigitsValue(Tail(s), acc)
    ELSE DigitsValue(Tail(s), 10 * acc + DigitValue(s[1]))

\* digits, with single underscores between digits only
IsIntBody(body) ==
    /\ body # <<>>
    /\ IsDigit(body[1])
    /\ IsDigit(body[Len(body)])
    /\ \A i \in 1..Len(body) : IsDigit(body[i]) \/ body[i] = "_"
    /\ \A i \in 1..(Len(body) - 1) : ~(body[i] = "_" /\ body[i + 1] = "_")

IntOfBody(body, negative) ==
    IF ~IsIntBody(body) THEN [ok |-> FALSE, n |-> 0]
    ELSE [ok |-> TRUE,
          n  |-> IF negative THEN 0 - DigitsValue(body, 0) ELSE DigitsValue(body, 0)]

IntOfStripped(t) ==
    IF t # <<>> /\ t[1] \in {"+", "-"} THEN IntOfBody(Tail(t), t[1] = "-")
    ELSE IntOfBody(t, FALSE)

\* int(s): [ok |-> FALSE] stands for ValueError
int(s) == IntOfStripped(Strip(s))

-----------------------------------------------------------------------------
(* BraceMatcher *)

RECURSIVE MatchLoop(_, _, _)
\* the while loop of _find_matching_brace: <<i, depth>> when it ends
MatchLoop(s, i, depth) ==
    IF i < Len(s) /\ depth > 0
    THEN IF At(s, i) = "\\" /\ i + 1 < Len(s)
         THEN MatchLoop(s, i + 2, depth)
         ELSE MatchLoop(s, i + 1,
                        IF At(s, i) = "{" THEN depth + 1
                        ELSE IF At(s, i) = "}" THEN depth - 1
                        ELSE depth)
    ELSE <<i, depth>>

\* `if depth == 0: return i - 1` else None (-1)
MatchEnd(r) == IF r[2] = 0 THEN r[1] - 1 ELSE -1

\* the index of the closing brace, or -1 for None
_find_matching_brace(s, start) ==
    IF start >= Len(s) \/ At(s, start) # "{" THEN -1
    ELSE MatchEnd(MatchLoop(s, start + 1, 1))

RECURSIVE ScanLoop(_, _, _)
RECURSIVE ScanBrace(_, _, _, _)
\* the while loop of _find_substitutions
ScanLoop(s, i, results) ==
    IF i >= Len(s) THEN results
    ELSE IF At(s, i) = "\\" /\ i + 1 < Len(s) /\ At(s, i + 1) = "{"
         THEN ScanLoop(s, i + 2, results)
    ELSE IF At(s, i) = "{"
         THEN ScanBrace(s, i, results, _find_matching_brace(s, i))
    ELSE ScanLoop(s, i + 1, results)

\* a slip: the scan given up at the first opening brace without a match
ScanBraceGivingUp(s, i, results, end) ==
    IF end # -1
    THEN ScanLoop(s, end + 1,
                  Append(results,
                         [start |-> i, end |-> end + 1, expr |-> Slice(s, i + 1, end)]))
    ELSE results

\* at an opening brace whose match is `end` (-1: none)
ScanBrace(s, i, results, end) ==
    IF end # -1
    THEN ScanLoop(s, end + 1,
                  Append(results,
                         [start |-> i, end |-> end + 1, expr |-> Slice(s, i + 1, end)]))
    ELSE ScanLoop(s, i + 1, results)

_find_substitutions(s) == ScanLoop(s, 0, <<>>)

-----------------------------------------------------------------------------
(* Resolver helpers *)

\* _substitute_env with the environ of the call
_substitute_env(key, default) ==
    IF key \in DOMAIN environ THEN environ[key]
    ELSE IF default # None THEN default
    ELSE <<>>

_substitute_posargs(args, default) ==
    IF args # <<>> THEN Join(<<" ">>, args)
    ELSE IF default # None THEN default
    ELSE <<>>

\* a slice bound brought into 0..n: negative bounds count from the end
ClampBound(x, n) ==
    IF x < 0 THEN (IF x + n < 0 THEN 0 ELSE x + n)
    ELSE IF x > n THEN n ELSE x

\* a slip: negative bounds taken as 0 instead of counted from the end
ClampBoundNoNegative(x, n) ==
    IF x < 0 THEN 0 ELSE IF x > n THEN n ELSE x

\* seq[lo:hi] for bounds in 0..len
SliceBetween(seq, lo, hi) == IF lo < hi THEN SubSeq(seq, lo + 1, hi) ELSE <<>>

\* a slip: negative bounds taken as 0 instead of counted from the end
PySliceNoNegative(seq, start, end) ==
    SliceBetween(seq,
                 IF start.some THEN ClampBoundNoNegative(start.n, Len(seq)) ELSE 0,
                 IF end.some THEN ClampBoundNoNegative(end.n, Len(seq)) ELSE Len(seq))

\* seq[start:end] for optional bounds ([some |-> FALSE] is None)
PySlice(seq, start, end) ==
    SliceBetween(seq,
                 IF start.some THEN ClampBound(start.n, Len(seq)) ELSE 0,
                 IF end.some THEN ClampBound(end.n, Len(seq)) ELSE Len(seq))

OptionalOf(parsed) == [bad |-> ~parsed.ok, some |-> TRUE, n |-> parsed.n]

\* int(part) if part else None; bad marks the ValueError
OptionalInt(part) ==
    IF part = <<>> THEN [bad |-> FALSE, some |-> FALSE, n |-> 0]
    ELSE OptionalOf(int(part))

\* posargs[start:end] joined, or None on a ValueError
SliceBy(args, start, end) ==
    IF start.bad \/ end.bad THEN None
    ELSE Join(<<" ">>, PySlice(args, start, end))

\* the slice expression split once on ":"
SliceOf(args, parts) == SliceBy(args, OptionalInt(parts[1]), OptionalInt(parts[2]))

\* a slip: the range test `0 <= idx < len(posargs)`, which loses negative indices
IndexFromStartOnly(args, idx) ==
    IF ~idx.ok THEN None
    ELSE IF 0 <= idx.n /\ idx.n < Len(args) THEN args[idx.n + 1]
    ELSE <<>>

\* the single index: the element, "" out of range, None on a ValueError
IndexBy(args, idx) ==
    IF ~idx.ok THEN None
    ELSE IF 0 - Len(args) <= idx.n /\ idx.n < Len(args)
         THEN IF idx.n < 0 THEN args[Len(args) + idx.n + 1] ELSE args[idx.n + 1]
    ELSE <<>>

\* the str result, or None for an invalid expression
_substitute_posargs_indexed(args, index_expr) ==
    IF HasChar(index_expr, ":") THEN SliceOf(args, SplitOnce(index_expr, ":"))
    ELSE IndexBy(args, int(index_expr))

\* a slip: the two values exchanged
TtySwapped(on_value, off_value) ==
    IF isatty THEN off_value ELSE on_value

_substitute_tty(on_value, off_value) ==
    IF isatty THEN on_value ELSE off_value

\* names the source compares against
s_testenv_    == <<"t", "e", "s", "t", "e", "n", "v", ":">>
s_testenv     == <<"t", "e", "s", "t", "e", "n", "v">>
s_pkgenv      == <<"p", "k", "g", "e", "n", "v">>
s_tox         == <<"t", "o", "x">>
s_tox_tox     == <<"t", "o", "x", ":", "t", "o", "x">>
s_env         == <<"e", "n", "v">>
s_env_run_base == <<"e", "n", "v", "_", "r", "u", "n", "_", "b", "a", "s", "e">>
s_env_pkg_base == <<"e", "n", "v", "_", "p", "k", "g", "_", "b", "a", "s", "e">>
s_posargs     == <<"p", "o", "s", "a", "r", "g", "s">>
s_posargs_    == <<"p", "o", "s", "a", "r", "g", "s", "[">>
s_tty         == <<"t", "t", "y">>
s_pathsep     == <<"p", "a", "t", "h", "s", "e", "p">>
s_sep         == <<"s", "e", "p">>

\* os.pathsep and os.sep of a POSIX host
os_pathsep == <<":">>
os_sep     == <<"/">>

\* a slip in the table: pkgenv sent to env_run_base
SectionMapPkgenvToRunBase ==
    (s_tox :> <<>>) @@ (s_tox_tox :> <<>>) @@
    (s_testenv :> s_env_run_base) @@ (s_pkgenv :> s_env_run_base)

\* a slip: the sections read under the names the INI file gives them
SectionMapRawNames ==
    (s_tox :> s_tox) @@ (s_tox_tox :> s_tox) @@
    (s_testenv :> s_testenv) @@ (s_pkgenv :> s_pkgenv)

INI_SECTION_MAP ==
    (s_tox :> <<>>) @@ (s_tox_tox :> <<>>) @@
    (s_testenv :> s_env_run_base) @@ (s_pkgenv :> s_env_pkg_base)

\* d.get(key, {}) ; a receiver that is no dict has no attribute get
DictGet(d, key) ==
    IF d.tag # "dict" THEN Raise("AttributeError")
    ELSE IF key \in DOMAIN d.val THEN [exc |-> "", val |-> d.val[key]]
    ELSE [exc |-> "", val |-> EmptyDict]

\* key in c, for a str key: [exc, val] with val the answer
KeyIn(key, c) ==
    CASE c.tag = "dict" -> [exc |-> "", val |-> key \in DOMAIN c.val]
      [] c.tag = "str"  -> [exc |-> "", val |-> Contains(c.val, key)]
      [] c.tag = "list" ->
           [exc |-> "",
            val |-> \E i \in 1..Len(c.val) :
                        c.val[i].tag = "str" /\ c.val[i].val = key]
      [] OTHER -> [exc |-> "TypeError", val |-> FALSE]

\* `value = c[key]; if isinstance(value, str): return value`, has = `key in c`
KeyValue(c, key, has) ==
    IF has.exc # "" THEN Raise(has.exc)
    ELSE IF ~has.val THEN Ok(None)
    ELSE IF c.tag # "dict" THEN Raise("TypeError")
    ELSE IF c.val[key].tag = "str" THEN Ok(c.val[key].val)
    ELSE Ok(None)

\* the pattern `if key in c: value = c[key]; if isinstance(value, str): return value`
\* Ok(None) when control falls through
KeyLookup(c, key) == KeyValue(c, key, KeyIn(key, c))

\* a slip: the base value read whatever the environment itself holds
BaseOnly(own, key) ==
    IF own.exc # "" THEN own
    ELSE KeyLookup(DictGet(config, s_env_run_base).val, key)

\* the value of the environment itself, else `# Fall back to env_run_base`
OwnOrBase(own, key) ==
    IF own.exc # "" \/ own.val # None THEN own
    ELSE KeyLookup(DictGet(config, s_env_run_base).val, key)

\* env_config = config.get("env", {}).get(env_name, {})
EnvConfigLookup(env_config, key) ==
    IF env_config.exc # "" THEN env_config
    ELSE OwnOrBase(KeyLookup(env_config.val, key), key)

\* envs = config.get("env", {})
NamedEnvLookup(envs, env_name, key) ==
    IF envs.exc # "" THEN envs
    ELSE EnvConfigLookup(DictGet(envs.val, env_name), key)

\* mapped = INI_SECTION_MAP[section]
MappedLookup(mapped, key) ==
    IF mapped = <<>> THEN KeyLookup(config, key)
    ELSE KeyLookup(DictGet(config, mapped).val, key)

\* Ok(str), Ok(None) for None, or the exception
_resolve_ini_section_reference(section, key) ==
    IF StartsWith(section, s_testenv_)
    THEN NamedEnvLookup(DictGet(config, s_env),
                        Slice(section, Len(s_testenv_), Len(section)), key)
    ELSE IF section \in DOMAIN INI_SECTION_MAP
    THEN MappedLookup(INI_SECTION_MAP[section], key)
    ELSE Ok(None)

RECURSIVE _get_value_by_path(_, _)
\* the value at the path (a tagged value), or VNone when not found
_get_value_by_path(parts, current) ==
    IF parts = <<>> THEN current
    ELSE IF current.tag = "dict" /\ parts[1] \in DOMAIN current.val
         THEN _get_value_by_path(Tail(parts), current.val[parts[1]])
    ELSE VNone

\* `if isinstance(result, str): return result` else None
StrOrNone(found) == IF found.tag = "str" THEN found.val ELSE None

\* a slip: the walk stopped after the first key of the path
DottedFirstKeyOnly(path) ==
    StrOrNone(_get_value_by_path(<<Split(path, ".")[1]>>, config))

_resolve_dotted_reference(path) ==
    StrOrNone(_get_value_by_path(Split(path, "."), config))

-----------------------------------------------------------------------------
(* ExpressionParser *)

RECURSIVE ParseLoop(_, _, _, _, _, _)
\* the while loop of _parse_substitution, then parts.append("".join(current))
ParseLoop(expr, i, parts, current, brace_depth, bracket_depth) ==
    IF i >= Len(expr) THEN Append(parts, current)
    ELSE IF /\ At(expr, i) = "\\"
            /\ i + 1 < Len(expr)
            /\ At(expr, i + 1) \in {":", "{", "}", "[", "]"}
         THEN ParseLoop(expr, i + 2, parts, Append(current, At(expr, i + 1)),
                        brace_depth, bracket_depth)
    ELSE IF At(expr, i) = ":" /\ brace_depth = 0 /\ bracket_depth = 0
         THEN ParseLoop(expr, i + 1, Append(parts, current), <<>>,
                        brace_depth, bracket_depth)
    ELSE ParseLoop(expr, i + 1, parts, Append(current, At(expr, i)),
                   brace_depth + (IF At(expr, i) = "{" THEN 1
                                  ELSE IF At(expr, i) = "}" THEN -1 ELSE 0),
                   bracket_depth + (IF At(expr, i) = "[" THEN 1
                                    ELSE IF At(expr, i) = "]" THEN -1 ELSE 0))

\* `return (parts[0], parts[1:])`
KindAndArgs(parts) == <<parts[1], Tail(parts)>>

\* a slip: the inner text split on every colon, nested or not
SplitOnEveryColon(expr) == KindAndArgs(Split(expr, ":"))

\* <<substitution_type, arguments>>
_parse_substitution(expr) ==
    IF expr = <<":">> THEN <<s_pathsep, <<>>>>
    ELSE IF expr = <<"/">> THEN <<s_sep, <<>>>>
    ELSE KindAndArgs(ParseLoop(expr, 0, <<>>, <<>>, 0, 0))

-----------------------------------------------------------------------------
(* Resolver and StringSubstitutor *)

\* a slip: range(9)
NineRounds == 3 * 3

max_iterations == 10

\* the nesting of substitute_string calls at which the interpreter gives up
\* (RecursionError); CPython's own limit is far larger, the behaviour is the same
RecursionLimit == 4

RECURSIVE StripAnyEscape(_)
\* a slip in the pattern: \\(.) in place of \\([{}\[\]:])
StripAnyEscape(s) ==
    IF s = <<>> THEN s
    ELSE IF s[1] = "\\" /\ Len(s) > 1
         THEN <<s[2]>> \o StripAnyEscape(SubSeq(s, 3, Len(s)))
    ELSE <<s[1]>> \o StripAnyEscape(Tail(s))

RECURSIVE StripBraceEscapes(_)
\* a slip in the pattern: \\([{}]) in place of \\([{}\[\]:])
StripBraceEscapes(s) ==
    IF s = <<>> THEN s
    ELSE IF s[1] = "\\" /\ Len(s) > 1 /\ s[2] \in {"{", "}"}
         THEN <<s[2]>> \o StripBraceEscapes(SubSeq(s, 3, Len(s)))
    ELSE <<s[1]>> \o StripBraceEscapes(Tail(s))

\* ESCAPED_BRACE_PATTERN.sub(r"\1", s): leftmost non-overlapping matches
RECURSIVE StripEscapes(_)
StripEscapes(s) ==
    IF s = <<>> THEN s
    ELSE IF s[1] = "\\" /\ Len(s) > 1 /\ s[2] \in {"{", "}", "[", "]", ":"}
         THEN <<s[2]>> \o StripEscapes(SubSeq(s, 3, Len(s)))
    ELSE <<s[1]>> \o StripEscapes(Tail(s))

\* f"{{{expr}}}"
Braced(expr) == <<"{">> \o expr \o <<"}">>

RECURSIVE _substitute_single(_, _)
RECURSIVE substitute_string_at(_, _)
RECURSIVE ReplaceSpans(_, _, _, _)
RECURSIVE RoundLoop(_, _, _, _)

\* the default argument args[k - 1], substituted by a nested substitute_string call
SubstitutedDefault(args, k, depth) ==
    IF Len(args) >= k THEN substitute_string_at(args[k], depth + 1)
    ELSE Ok(None)

\* `if result is not None: return result`, else the placeholder as it was;
\* r is Ok(str), Ok(None) or an exception
FoundOrBraced(r, expr) ==
    IF r.exc # "" THEN r
    ELSE IF r.val # None THEN r
    ELSE Ok(Braced(expr))

\* the branch `if expr.startswith("[")`
SectionReference(expr, bracket_end) ==
    IF bracket_end > 1 /\ Slice(expr, bracket_end + 1, Len(expr)) # <<>>
    THEN FoundOrBraced(
             _resolve_ini_section_reference(Slice(expr, 1, bracket_end),
                                            Slice(expr, bracket_end + 1, Len(expr))),
             expr)
    ELSE Ok(Braced(expr))

\* `return _substitute_env(key, default, environ)` once the default is substituted
EnvWithDefault(key, default) ==
    IF default.exc # "" THEN default
    ELSE Ok(_substitute_env(key, default.val))

\* `return _substitute_posargs(posargs, default)` once the default is substituted
PosargsWithDefault(default) ==
    IF default.exc # "" THEN default
    ELSE Ok(_substitute_posargs(posargs, default.val))

\* a slip: the placeholder rebuilt from its kind, the arguments lost
PlainKeyKindOnly(expr, sub_type) ==
    IF sub_type \in DOMAIN config.val /\ config.val[sub_type].tag = "str"
    THEN Ok(config.val[sub_type].val)
    ELSE Ok(Braced(sub_type))

\* `if sub_type in config`: the string value, else the placeholder as it was
PlainKey(expr, sub_type) ==
    IF sub_type \in DOMAIN config.val /\ config.val[sub_type].tag = "str"
    THEN Ok(config.val[sub_type].val)
    ELSE Ok(Braced(expr))

\* `if "." in expr`: the dotted reference if it resolves (r), else the plain key
DottedOrPlainKey(expr, sub_type, r) ==
    IF r # None THEN Ok(r) ELSE PlainKey(expr, sub_type)

\* a slip: a top-level string key of the kind's name looked up before the
\* built-in kinds
ResolveKindKeyFirst(expr, sub_type, args, depth) ==
    IF sub_type \in DOMAIN config.val /\ config.val[sub_type].tag = "str"
    THEN Ok(config.val[sub_type].val)
    ELSE IF sub_type = s_pathsep THEN Ok(os_pathsep)
    ELSE IF sub_type = s_sep THEN Ok(os_sep)
    ELSE IF sub_type = s_env
    THEN IF args = <<>> THEN Ok(Braced(expr))
         ELSE EnvWithDefault(args[1], SubstitutedDefault(args, 2, depth))
    ELSE IF sub_type = s_posargs \/ StartsWith(sub_type, s_posargs_)
    THEN IF StartsWith(sub_type, s_posargs_) /\ EndsWith(sub_type, <<"]">>)
         THEN FoundOrBraced(
                  Ok(_substitute_posargs_indexed(
                         posargs, Slice(sub_type, 8, Len(sub_type) - 1))),
                  expr)
         ELSE PosargsWithDefault(SubstitutedDefault(args, 1, depth))
    ELSE IF sub_type = s_tty
    THEN Ok(_substitute_tty(IF args # <<>> THEN args[1] ELSE <<>>,
                            IF Len(args) > 1 THEN args[2] ELSE <<>>))
    ELSE IF HasChar(expr, ".")
    THEN DottedOrPlainKey(expr, sub_type, _resolve_dotted_reference(expr))
    ELSE PlainKey(expr, sub_type)

\* _substitute_single past _parse_substitution
ResolveKind(expr, sub_type, args, depth) ==
    IF sub_type = s_pathsep THEN Ok(os_pathsep)
    ELSE IF sub_type = s_sep THEN Ok(os_sep)
    ELSE IF sub_type = s_env
    THEN IF args = <<>> THEN Ok(Braced(expr))
         ELSE EnvWithDefault(args[1], SubstitutedDefault(args, 2, depth))
    ELSE IF sub_type = s_posargs \/ StartsWith(sub_type, s_posargs_)
    THEN IF StartsWith(sub_type, s_posargs_) /\ EndsWith(sub_type, <<"]">>)
         THEN FoundOrBraced(
                  Ok(_substitute_posargs_indexed(
                         posargs, Slice(sub_type, 8, Len(sub_type) - 1))),
                  expr)
         ELSE PosargsWithDefault(SubstitutedDefault(args, 1, depth))
    ELSE IF sub_type = s_tty
    THEN Ok(_substitute_tty(IF args # <<>> THEN args[1] ELSE <<>>,
                            IF Len(args) > 1 THEN args[2] ELSE <<>>))
    ELSE IF HasChar(expr, ".")
    THEN DottedOrPlainKey(expr, sub_type, _resolve_dotted_reference(expr))
    ELSE PlainKey(expr, sub_type)

\* `sub_type, args = _parse_substitution(expr)`
Resolve(expr, parsed, depth) == ResolveKind(expr, parsed[1], parsed[2], depth)

\* _substitute_single called within a substitute_string call nested `depth` deep
_substitute_single(expr, depth) ==
    IF StartsWith(expr, <<"[">>) THEN SectionReference(expr, Find(expr, "]"))
    ELSE Resolve(expr, _parse_substitution(expr), depth)

\* `value = value[:start] + replacement + value[end:]`, then the spans before
ReplaceSpan(v, substitutions, k, depth, replacement) ==
    IF replacement.exc # "" THEN replacement
    ELSE ReplaceSpans(Slice(v, 0, substitutions[k].start) \o replacement.val
                        \o Slice(v, substitutions[k].end, Len(v)),
                      substitutions, k - 1, depth)

\* `for start, end, expr in reversed(substitutions)`: spans k, k-1, .. 1
ReplaceSpans(v, substitutions, k, depth) ==
    IF k = 0 THEN Ok(v)
    ELSE ReplaceSpan(v, substitutions, k, depth,
                     _substitute_single(substitutions[k].expr, depth))

RECURSIVE ForwardSpans(_, _, _, _)
\* the spans replaced first to last, each at the offsets found before any
\* replacement (clamped to the text as it then is)
ForwardSpans(v, substitutions, k, depth) ==
    IF k > Len(substitutions) THEN Ok(v)
    ELSE LET r == _substitute_single(substitutions[k].expr, depth)
             a == IF substitutions[k].start > Len(v) THEN Len(v)
                  ELSE substitutions[k].start
             b == IF substitutions[k].end > Len(v) THEN Len(v)
                  ELSE substitutions[k].end
         IN  IF r.exc # "" THEN r
             ELSE ForwardSpans(Slice(v, 0, a) \o r.val \o Slice(v, b, Len(v)),
                               substitutions, k + 1, depth)

\* a slip: the spans of one iteration replaced left to right
RoundOverForward(v, substitutions, depth) == ForwardSpans(v, substitutions, 1, depth)

\* the spans of one iteration, replaced right to left
RoundOver(v, substitutions, depth) ==
    ReplaceSpans(v, substitutions, Len(substitutions), depth)

\* one iteration of the for loop of substitute_string past its break test
Round(v, depth) == RoundOver(v, _find_substitutions(v), depth)

\* after an iteration that gave r: the next one, unless an exception left it
RoundNext(v, it, depth, r) ==
    IF r.exc # "" THEN r
    ELSE RoundLoop(r.val, v, it + 1, depth)

\* the for loop of substitute_string from iteration `it`, then the unescaping
RoundLoop(v, prev, it, depth) ==
    IF it = max_iterations \/ v = prev THEN Ok(StripEscapes(v))
    ELSE RoundNext(v, it, depth, Round(v, depth))

\* substitute_string as a nested call (from _substitute_single)
substitute_string_at(v, depth) ==
    IF depth > RecursionLimit THEN Raise("RecursionError")
    ELSE RoundLoop(v, None, 0, depth)

-----------------------------------------------------------------------------
(* substitute_string, one loop iteration per step *)

\* entry of substitute_string(t, config=c, posargs=p, environ=e)
Enter(t, c, p, e, tty) ==
    /\ text = t
    /\ config = c
    /\ posargs = p
    /\ environ = e
    /\ isatty = tty
    /\ value = t
    /\ prev_value = None
    /\ iter = 0
    /\ pc = "loop"
    /\ result = Ok(None)
    /\ ncall = 1
    /\ first = [arg |-> t, fixed |-> FALSE, at |-> None, out |-> Ok(None)]
    /\ arg = VNone
    /\ vpc = "idle"
    /\ item = 0
    /\ out = <<>>
    /\ resolved = NoneResolved
    /\ vresult = Made(VNone)
    /\ directory = NoDirectory
    /\ probe = 0
    /\ located = NotSearching

\* a slip: one round only, what it inserted never scanned
LoopingOnce == pc = "loop" /\ iter < 1 /\ value # prev_value

\* the loop goes on: no break yet and iterations left
Looping == pc = "loop" /\ iter < max_iterations /\ value # prev_value

\* the iteration gave r: the rewritten text, or the exception that ends the call
IterateTo(r) ==
    /\ IF r.exc # ""
       THEN /\ pc' = "raised"
            /\ result' = r
            /\ UNCHANGED <<value, prev_value>>
       ELSE /\ value' = r.val
            /\ prev_value' = value
            /\ UNCHANGED <<pc, result>>
    /\ iter' = iter + 1
    /\ UNCHANGED <<text, config, posargs, environ, isatty, ncall, first>>
    /\ UNCHANGED valueVars
    /\ UNCHANGED finderVars

\* one iteration: every span of the current text resolved, right to left
Iterate == Looping /\ IterateTo(Round(value, 0))

\* break or exhaustion, the escapes stripped, return
Return ==
    /\ pc = "loop"
    /\ ~Looping
    /\ pc' = "done"
    /\ result' = Ok(StripEscapes(value))
    /\ first' = IF ncall = 1
                THEN [arg |-> text, fixed |-> value = prev_value, at |-> value,
                      out |-> Ok(StripEscapes(value))]
                ELSE first
    /\ UNCHANGED <<text, config, posargs, environ, isatty, value, prev_value,
                   iter, ncall>>
    /\ UNCHANGED valueVars
    /\ UNCHANGED finderVars

\* the caller substitutes the returned string once more, same context
Resubstitute ==
    /\ pc = "done"
    /\ ncall = 1
    /\ ncall' = 2
    /\ text' = result.val
    /\ value' = result.val
    /\ prev_value' = None
    /\ iter' = 0
    /\ pc' = "loop"
    /\ result' = Ok(None)
    /\ UNCHANGED <<config, posargs, environ, isatty, first>>
    /\ UNCHANGED valueVars
    /\ UNCHANGED finderVars

\* one call of substitute_string
NextCall == Iterate \/ Return

\* a call, and a second call on what the first returned
Next == Iterate \/ Return \/ Resubstitute

-----------------------------------------------------------------------------
(* InlineResolver: _resolve_toml_inline_substitution *)

s_replace == <<"r", "e", "p", "l", "a", "c", "e">>
s_default == <<"d", "e", "f", "a", "u", "l", "t">>
s_extend  == <<"e", "x", "t", "e", "n", "d">>
s_name    == <<"n", "a", "m", "e">>
s_of      == <<"o", "f">>
s_ref     == <<"r", "e", "f">>

\* bool(v)
Truthy(v) ==
    CASE v.tag = "bool" -> v.val
      [] v.tag = "int"  -> v.val # 0
      [] v.tag = "str"  -> v.val # <<>>
      [] v.tag = "list" -> v.val # <<>>
      [] v.tag = "dict" -> DOMAIN v.val # {}
      [] OTHER -> FALSE

\* spec.get(key, otherwise)
GetOr(spec, key, otherwise) ==
    IF key \in DOMAIN spec.val THEN spec.val[key] ELSE otherwise

\* isinstance(value, dict) and "replace" in value
_is_toml_inline_substitution(v) == v.tag = "dict" /\ s_replace \in DOMAIN v.val

\* v == "..." for a str literal
IsStr(v, s) == v.tag = "str" /\ v.val = s

\* list(posargs)
ListOfStr(args) == VList([i \in 1..Len(args) |-> VStr(args[i])])

\* a slip: the posargs always joined into one string
ResolvePosargsJoined(default, extend) ==
    IF posargs # <<>> THEN Resolved(VStr(Join(<<" ">>, posargs)), extend)
    ELSE IF default.tag # "none" THEN Resolved(default, extend)
    ELSE Resolved(IF extend THEN VList(<<>>) ELSE VStr(<<>>), extend)

\* the branch `if replace_type == "posargs"`; extend is the flag's truth value
ResolvePosargs(default, extend) ==
    IF posargs # <<>>
    THEN IF extend \/ default.tag = "list"
         THEN Resolved(ListOfStr(posargs), extend)
         ELSE Resolved(VStr(Join(<<" ">>, posargs)), extend)
    ELSE IF default.tag # "none" THEN Resolved(default, extend)
    ELSE Resolved(IF extend THEN VList(<<>>) ELSE VStr(<<>>), extend)

\* the branch `if replace_type == "env"`; environ.get hashes the name
ResolveEnv(env_name, default, extend) ==
    IF env_name.tag \in {"list", "dict"}
    THEN [exc |-> "TypeError", val |-> VNone, extend |-> FALSE]
    ELSE IF env_name.tag = "str" /\ env_name.val \in DOMAIN environ
    THEN Resolved(VStr(environ[env_name.val]), extend)
    ELSE IF default.tag # "none" THEN Resolved(default, extend)
    ELSE Resolved(VStr(<<>>), extend)

\* a slip: the extend flag left as given, a list default not spliced
RefDefaultAsFlagged(default, extend) ==
    IF default.tag # "none" THEN Resolved(default, extend)
    ELSE Resolved(VStr(<<>>), extend)

\* `if default is not None:` of the ref branch, and its last return
RefDefault(default, extend) ==
    IF default.tag # "none"
    THEN Resolved(default, extend \/ default.tag = "list")
    ELSE Resolved(VStr(<<>>), extend)

\* `if ref_value is not None:`
RefFound(ref_value, default, extend) ==
    IF ref_value.tag # "none"
    THEN Resolved(ref_value, extend \/ ref_value.tag = "list")
    ELSE RefDefault(default, extend)

\* the keys of `of` as the walk meets them: a key that is no str is in no mapping
PathKeys(of) == [i \in 1..Len(of) |-> IF of[i].tag = "str" THEN of[i].val ELSE None]

\* the branch `if replace_type == "ref"`
ResolveRef(of, default, extend) ==
    IF of.tag = "list" /\ of.val # <<>>
    THEN RefFound(_get_value_by_path(PathKeys(of.val), config), default, extend)
    ELSE RefDefault(default, extend)

\* _resolve_toml_inline_substitution past its three spec.get calls
ResolveTagged(spec, replace_type, default, extend) ==
    IF IsStr(replace_type, s_posargs) THEN ResolvePosargs(default, extend)
    ELSE IF IsStr(replace_type, s_env)
    THEN ResolveEnv(GetOr(spec, s_name, VStr(<<>>)), default, extend)
    ELSE IF IsStr(replace_type, s_ref)
    THEN ResolveRef(GetOr(spec, s_of, VList(<<>>)), default, extend)
    ELSE Resolved(spec, FALSE)

_resolve_toml_inline_substitution(spec) ==
    ResolveTagged(spec, GetOr(spec, s_replace, VStr(<<>>)),
                  GetOr(spec, s_default, VNone),
                  Truthy(GetOr(spec, s_extend, VBool(FALSE))))

-----------------------------------------------------------------------------
(* ValueWalker: substitute_value and substitute_config *)

\* the nesting of substitute_value calls at which the interpreter gives up
\* (RecursionError); as with RecursionLimit, no tree of the inputs is as deep
WalkLimit == 8

\* `result = []`, with the items' aliasing gathered in the same record
EmptyResult == [exc |-> "", val |-> <<>>, aliased |-> FALSE]

\* result.append(r) for the outcome r of a nested call
AppendTo(acc, r) ==
    IF r.exc # "" THEN [exc |-> r.exc, val |-> <<>>, aliased |-> FALSE]
    ELSE [exc |-> "", val |-> Append(acc.val, r.val),
          aliased |-> acc.aliased \/ r.aliased]

\* `return substitute_string(value, ...)`
StrValue(r) == IF r.exc # "" THEN Failed(r.exc) ELSE Made(VStr(r.val))

\* `return result`
ListValue(acc) ==
    IF acc.exc # "" THEN Failed(acc.exc)
    ELSE [exc |-> "", val |-> VList(acc.val), aliased |-> acc.aliased]

\* the dict comprehension, its values given; values() come in no modelled order
DictValue(results) ==
    IF \E k \in DOMAIN results : results[k].exc # ""
    THEN Failed(results[CHOOSE k \in DOMAIN results : results[k].exc # ""].exc)
    ELSE [exc |-> "", val |-> VDict([k \in DOMAIN results |-> results[k].val]),
          aliased |-> \E k \in DOMAIN results : results[k].aliased]

RECURSIVE substitute_value_at(_, _)
RECURSIVE ExtendLoop(_, _, _, _)
RECURSIVE ExtendRaw(_, _, _, _)
RECURSIVE ListLoop(_, _, _, _)

\* a slip: result.extend(resolved), the items taken as they are
ExtendRaw(rs, i, acc, depth) ==
    IF acc.exc # "" \/ i > Len(rs) THEN acc
    ELSE ExtendRaw(rs, i + 1, AppendTo(acc, AsIs(rs[i])), depth)

\* result.extend(substitute_value(r, ...) for r in resolved), from item i
ExtendLoop(rs, i, acc, depth) ==
    IF acc.exc # "" \/ i > Len(rs) THEN acc
    ELSE ExtendLoop(rs, i + 1, AppendTo(acc, substitute_value_at(rs[i], depth + 1)),
                    depth)

\* a slip: every resolved value appended as one element
SpecItemAppended(r, acc, depth) ==
    IF r.exc # "" THEN [exc |-> r.exc, val |-> <<>>, aliased |-> FALSE]
    ELSE AppendTo(acc, substitute_value_at(r.val, depth + 1))

\* a list item that is an inline table, resolved to r
SpecItem(r, acc, depth) ==
    IF r.exc # "" THEN [exc |-> r.exc, val |-> <<>>, aliased |-> FALSE]
    ELSE IF r.extend /\ r.val.tag = "list" THEN ExtendLoop(r.val.val, 1, acc, depth)
    ELSE AppendTo(acc, substitute_value_at(r.val, depth + 1))

\* the body of `for item in value`
ListItem(it, acc, depth) ==
    IF _is_toml_inline_substitution(it)
    THEN SpecItem(_resolve_toml_inline_substitution(it), acc, depth)
    ELSE AppendTo(acc, substitute_value_at(it, depth + 1))

\* `for item in value` from item i
ListLoop(items, i, acc, depth) ==
    IF acc.exc # "" \/ i > Len(items) THEN acc
    ELSE ListLoop(items, i + 1, ListItem(items[i], acc, depth), depth)

\* `return substitute_value(resolved, ...)` of a mapping that is an inline table
ResolvedValue(r, depth) ==
    IF r.exc # "" THEN Failed(r.exc)
    ELSE substitute_value_at(r.val, depth + 1)

\* substitute_value called `depth` frames deep
substitute_value_at(v, depth) ==
    IF depth > WalkLimit THEN Failed("RecursionError")
    ELSE IF v.tag = "str" THEN StrValue(substitute_string_at(v.val, 0))
    ELSE IF v.tag = "list" THEN ListValue(ListLoop(v.val, 1, EmptyResult, depth))
    ELSE IF v.tag = "dict"
    THEN IF _is_toml_inline_substitution(v)
         THEN ResolvedValue(_resolve_toml_inline_substitution(v), depth)
         ELSE DictValue([k \in DOMAIN v.val |->
                            substitute_value_at(v.val[k], depth + 1)])
    ELSE AsIs(v)

\* entry of substitute_value(v, config=c, posargs=p, environ=e)
EnterValue(v, c, p, e) ==
    /\ config = c
    /\ posargs = p
    /\ environ = e
    /\ isatty = FALSE
    /\ text = <<>>
    /\ value = <<>>
    /\ prev_value = None
    /\ iter = 0
    /\ pc = "idle"
    /\ result = Ok(None)
    /\ ncall = 1
    /\ first = [arg |-> <<>>, fixed |-> FALSE, at |-> None, out |-> Ok(None)]
    /\ arg = v
    /\ vpc = IF v.tag = "list" THEN "items" ELSE "call"
    /\ item = 0
    /\ out = EmptyResult
    /\ resolved = NoneResolved
    /\ vresult = Made(VNone)
    /\ directory = NoDirectory
    /\ probe = 0
    /\ located = NotSearching

\* what _resolve_toml_inline_substitution returned for v, if it was called
ResolvedFor(v) ==
    IF _is_toml_inline_substitution(v) THEN _resolve_toml_inline_substitution(v)
    ELSE resolved

\* the iteration over list item `it` left the result list as acc, or raised
ValueItemTo(it, acc) ==
    /\ item' = item + 1
    /\ resolved' = ResolvedFor(it)
    /\ IF acc.exc # ""
       THEN /\ vpc' = "raised"
            /\ vresult' = Failed(acc.exc)
            /\ UNCHANGED out
       ELSE /\ out' = acc
            /\ UNCHANGED <<vpc, vresult>>
    /\ UNCHANGED <<arg, config, posargs, environ, isatty>>
    /\ UNCHANGED callVars
    /\ UNCHANGED finderVars

\* one iteration of `for item in value` of the outermost call
ValueItem ==
    /\ vpc = "items"
    /\ item < Len(arg.val)
    /\ ValueItemTo(arg.val[item + 1], ListItem(arg.val[item + 1], out, 0))

\* the loop is over: `return result`
ValueReturn ==
    /\ vpc = "items"
    /\ item = Len(arg.val)
    /\ vpc' = "done"
    /\ vresult' = ListValue(out)
    /\ UNCHANGED <<arg, item, out, resolved, config, posargs, environ, isatty>>
    /\ UNCHANGED callVars
    /\ UNCHANGED finderVars

\* the call gave r
ValueCallTo(r) ==
    /\ vpc' = IF r.exc # "" THEN "raised" ELSE "done"
    /\ vresult' = r
    /\ resolved' = ResolvedFor(arg)
    /\ UNCHANGED <<arg, item, out, config, posargs, environ, isatty>>
    /\ UNCHANGED callVars
    /\ UNCHANGED finderVars

\* substitute_value on a str, a mapping or a scalar: the whole call
ValueCall ==
    /\ vpc = "call"
    /\ ValueCallTo(substitute_value_at(arg, 0))

\* one call of substitute_value
NextValue == ValueCall \/ ValueItem \/ ValueReturn

-----------------------------------------------------------------------------
(* raw.py: the readers' can_read and find_config_file *)

s_tool == <<"t", "o", "o", "l">>
s_legacy_tox_ini ==
    <<"l", "e", "g", "a", "c", "y", "_", "t", "o", "x", "_", "i", "n", "i">>

\* a file of the directory: kind "missing" (no regular file), "undecodable"
\* (bytes that are no UTF-8) or "text"; marks are the section headers the text
\* contains, toml what tomli.loads makes of it (InvalidToml: it raises)
InvalidToml == [tag |-> "invalid", val |-> 0]
File(kind, marks, toml) == [kind |-> kind, marks |-> marks, toml |-> toml]
Missing == File("missing", {}, InvalidToml)

\* path.is_file()
is_file(f) == f.kind # "missing"

\* what a can_read call gives: its answer or the exception it raised
Answer(b) == [exc |-> "", ok |-> b]
Refused(e) == [exc |-> e, ok |-> FALSE]

\* ToxINIConfigReader.can_read
ToxINI_can_read(name, f) == Answer(name = "tox.ini" /\ is_file(f))

\* ToxTOMLConfigReader.can_read
ToxTOML_can_read(name, f) == Answer(name = "tox.toml" /\ is_file(f))

\* SetupCfgConfigReader.can_read
SetupCfg_can_read(name, f) ==
    IF name # "setup.cfg" \/ ~is_file(f) THEN Answer(FALSE)
    ELSE IF f.kind = "undecodable" THEN Refused("UnicodeDecodeError")
    ELSE Answer("[tox:tox]" \in f.marks \/ "[testenv]" \in f.marks)

\* data.get("tool", {}).get("tox", {}), the first get given
ToolTox(tool) ==
    IF tool.exc # "" THEN tool ELSE DictGet(tool.val, s_tox)

\* content = path.read_text(); data = tomli.loads(content); tool_tox = ...
LoadToolTox(f) ==
    IF f.kind = "undecodable" THEN Raise("UnicodeDecodeError")
    ELSE IF f.toml.tag = "invalid" THEN Raise("TOMLDecodeError")
    ELSE ToolTox(DictGet(f.toml, s_tool))

\* `return "legacy_tox_ini" in tool_tox`
LegacyAnswer(tool_tox) ==
    IF tool_tox.exc # "" THEN Refused(tool_tox.exc)
    ELSE [exc |-> KeyIn(s_legacy_tox_ini, tool_tox.val).exc,
          ok  |-> KeyIn(s_legacy_tox_ini, tool_tox.val).val]

\* PyprojectLegacyINIConfigReader.can_read
PyprojectLegacy_can_read(name, f) ==
    IF name # "pyproject.toml" \/ ~is_file(f) THEN Answer(FALSE)
    ELSE LegacyAnswer(LoadToolTox(f))

\* a slip: any tool.tox table taken as native, legacy_tox_ini or not
NativeAnswerAnyTable(tool_tox) ==
    IF tool_tox.exc # "" THEN Refused(tool_tox.exc)
    ELSE Answer(Truthy(tool_tox.val))

\* `return bool(tool_tox) and "legacy_tox_ini" not in tool_tox`
NativeAnswer(tool_tox) ==
    IF tool_tox.exc # "" THEN Refused(tool_tox.exc)
    ELSE IF ~Truthy(tool_tox.val) THEN Answer(FALSE)
    ELSE [exc |-> KeyIn(s_legacy_tox_ini, tool_tox.val).exc,
          ok  |-> KeyIn(s_legacy_tox_ini, tool_tox.val).exc = ""
                  /\ ~KeyIn(s_legacy_tox_ini, tool_tox.val).val]

\* PyprojectTOMLConfigReader.can_read
PyprojectTOML_can_read(name, f) ==
    IF name # "pyproject.toml" \/ ~is_file(f) THEN Answer(FALSE)
    ELSE NativeAnswer(LoadToolTox(f))

\* CONFIG_READERS, its items() flattened in iteration order
CONFIG_READERS ==
    << [filename |-> "tox.ini",        reader |-> "ToxINIConfigReader"],
       [filename |-> "setup.cfg",      reader |-> "SetupCfgConfigReader"],
       [filename |-> "pyproject.toml", reader |-> "PyprojectLegacyINIConfigReader"],
       [filename |-> "pyproject.toml", reader |-> "PyprojectTOMLConfigReader"],
       [filename |-> "tox.toml",       reader |-> "ToxTOMLConfigReader"] >>

\* ', '.join(CONFIG_READERS.keys())
SearchedFor == <<"tox.ini", "setup.cfg", "pyproject.toml", "tox.toml">>

\* reader_class.can_read(path)
can_read(reader, name, f) ==
    CASE reader = "ToxINIConfigReader" -> ToxINI_can_read(name, f)
      [] reader = "SetupCfgConfigReader" -> SetupCfg_can_read(name, f)
      [] reader = "PyprojectLegacyINIConfigReader" -> PyprojectLegacy_can_read(name, f)
      [] reader = "PyprojectTOMLConfigReader" -> PyprojectTOML_can_read(name, f)
      [] OTHER -> ToxTOML_can_read(name, f)

\* entry of find_config_file(d)
EnterFind(d) ==
    /\ directory = d
    /\ probe = 0
    /\ located = [state |-> "searching", exc |-> "", path |-> <<>>, reader |-> "",
                message |-> <<>>]
    /\ config = EmptyDict
    /\ posargs = <<>>
    /\ environ = <<>>
    /\ isatty = FALSE
    /\ text = <<>>
    /\ value = <<>>
    /\ prev_value = None
    /\ iter = 0
    /\ pc = "idle"
    /\ result = Ok(None)
    /\ ncall = 1
    /\ first = [arg |-> <<>>, fixed |-> FALSE, at |-> None, out |-> Ok(None)]
    /\ arg = VNone
    /\ vpc = "idle"
    /\ item = 0
    /\ out = <<>>
    /\ resolved = NoneResolved
    /\ vresult = Made(VNone)

\* the reader asked gave answer a for candidate c
ProbeTo(c, a) ==
    /\ probe' = probe + 1
    /\ located' = IF a.exc # ""
                THEN [state |-> "raised", exc |-> a.exc, path |-> <<>>,
                      reader |-> "", message |-> <<>>]
                ELSE IF a.ok
                THEN [state |-> "returned", exc |-> "",
                      path |-> <<directory.name, c.filename>>,
                      reader |-> c.reader, message |-> <<>>]
                ELSE located
    /\ UNCHANGED directory
    /\ UNCHANGED <<config, posargs, environ, isatty>>
    /\ UNCHANGED callVars
    /\ UNCHANGED valueVars

\* `if reader_class.can_read(path): return path, reader_class` for the next reader
Probe ==
    /\ located.state = "searching"
    /\ probe < Len(CONFIG_READERS)
    /\ ProbeTo(CONFIG_READERS[probe + 1],
               can_read(CONFIG_READERS[probe + 1].reader,
                        CONFIG_READERS[probe + 1].filename,
                        directory.files[CONFIG_READERS[probe + 1].filename]))

\* both loops are over: raise FileNotFoundError(...)
NotFound ==
    /\ located.state = "searching"
    /\ probe = Len(CONFIG_READERS)
    /\ located' = [state |-> "raised", exc |-> "FileNotFoundError", path |-> <<>>,
                 reader |-> "", message |-> <<directory.name>> \o SearchedFor]
    /\ UNCHANGED <<directory, probe>>
    /\ UNCHANGED <<config, posargs, environ, isatty>>
    /\ UNCHANGED callVars
    /\ UNCHANGED valueVars

\* one call of find_config_file
NextFind == Probe \/ NotFound

-----------------------------------------------------------------------------
(* Inputs: texts over the characters the scanner distinguishes *)

MaxLen == 4

Alphabet == {"\\", "{", "}", ":", "x"}

Special == {"{", "}", "[", "]", ":"}

ShortTexts == UNION {[1..k -> Alphabet] : k \in 0..MaxLen}

t_esc_braces   == <<"\\", "{", "x", "\\", "}">>
t_esc_colon    == <<"a", "\\", ":", "b">>
t_esc_brackets == <<"\\", "[", "x", "\\", "]", "{", "x", "}">>
t_esc_esc      == <<"\\", "\\", "{", "x", "}", "\\", "{", "x", "}">>

EscapeTexts == ShortTexts \cup {t_esc_braces, t_esc_colon, t_esc_brackets, t_esc_esc}

c_x == VDict((<<"x">> :> VStr(<<"v">>)))

InitEscape ==
    \E t \in EscapeTexts, c \in {EmptyDict, c_x} : Enter(t, c, <<>>, <<>>, FALSE)

\* substitute_string on short texts, and once more on each result
Spec == InitEscape /\ [][Next]_vars

-----------------------------------------------------------------------------
(* C3, C4 *)

NoEscapeMarker(s) ==
    \A i \in 1..(Len(s) - 1) : ~(s[i] = "\\" /\ s[i + 1] \in Special)

Finished == pc \in {"done", "raised"}

\* C3 as stated: whenever the first call stopped at a fixed point, the call on
\* its result returns that result unchanged.
C3_IdempotentAtFixedPoint ==
    (Finished /\ ncall = 2 /\ first.fixed) => result = first.out

\* C3 amended: when the first call stopped at a fixed point and the fixed-point
\* text holds no escape marker (no backslash directly before one of { } [ ] :),
\* the call on its result returns that result unchanged.
C3_IdempotentWithoutEscapes ==
    (Finished /\ ncall = 2 /\ first.fixed /\ NoEscapeMarker(first.at))
        => result = first.out

\* a first call that replaced a span, reached a fixed point, and was repeated
C3_Witness ==
    /\ pc = "done" /\ ncall = 2
    /\ first.fixed /\ NoEscapeMarker(first.at)
    /\ first.arg # first.at
    /\ result = first.out

RECURSIVE DropMarkers(_, _)
\* s from index i on, without the backslashes that directly precede a Special
DropMarkers(s, i) ==
    IF i > Len(s) THEN <<>>
    ELSE IF s[i] = "\\" /\ i < Len(s) /\ s[i + 1] \in Special
         THEN DropMarkers(s, i + 1)
    ELSE <<s[i]>> \o DropMarkers(s, i + 1)

\* C4: no span of the current text opens at a brace that follows a backslash;
\* a text without spans is returned with exactly the backslashes before
\* { } [ ] : removed; \{x\} gives {x} under every config, a\:b gives a:b.
C4_EscapeRoundTrip ==
    /\ \A k \in 1..Len(_find_substitutions(value)) :
           LET start == _find_substitutions(value)[k].start
           IN  start = 0 \/ At(value, start - 1) # "\\"
    /\ (Finished /\ _find_substitutions(text) = <<>>)
           => result = Ok(DropMarkers(text, 1))
    /\ (Finished /\ text = t_esc_braces) => result = Ok(<<"{", "x", "}">>)
    /\ (Finished /\ text = t_esc_colon) => result = Ok(<<"a", ":", "b">>)

\* \{x\} substituted where x is a top-level string key
C4_Witness ==
    /\ pc = "done" /\ ncall = 1
    /\ text = t_esc_braces /\ config = c_x
    /\ result = Ok(<<"{", "x", "}">>)

-----------------------------------------------------------------------------
(* Inputs: config values that refer to themselves or to each other *)

Placeholder(inner) == Braced(inner)

k_a == <<"a">>
k_b == <<"b">>
k_X == <<"X">>

t_a == Placeholder(k_a)
t_b == Placeholder(k_b)

\* {env:NAME} and {env:NAME:DEFAULT}
EnvText(name) == Placeholder(s_env \o <<":">> \o name)
EnvDefaultText(name, default) ==
    Placeholder(s_env \o <<":">> \o name \o <<":">> \o default)

\* {posargs:DEFAULT}
PosargsDefaultText(default) == Placeholder(s_posargs \o <<":">> \o default)

Dict1(k, v) == VDict(k :> v)
Dict2(k1, v1, k2, v2) == VDict((k1 :> v1) @@ (k2 :> v2))

c_self    == Dict1(k_a, VStr(<<"x">> \o t_a))                 \* a = "x{a}"
c_same    == Dict1(k_a, VStr(t_a))                            \* a = "{a}"
c_mutual  == Dict2(k_a, VStr(t_b), k_b, VStr(t_a))            \* a = "{b}", b = "{a}"
c_chain   == Dict2(k_a, VStr(t_b), k_b, VStr(<<"x">>))        \* a = "{b}", b = "x"
c_env_default == Dict1(k_a, VStr(EnvDefaultText(k_X, t_a)))   \* a = "{env:X:{a}}"
c_posargs_default == Dict1(k_a, VStr(PosargsDefaultText(t_a))) \* a = "{posargs:{a}}"

CycleConfigs == {c_self, c_same, c_mutual, c_chain, c_env_default, c_posargs_default}

CycleTexts ==
    {t_a, t_b, <<"x">> \o t_a, t_a \o t_b,
     EnvDefaultText(k_X, t_a), PosargsDefaultText(t_a)}

InitCycle ==
    \E t \in CycleTexts, c \in CycleConfigs,
       p \in {<<>>, <<<<"p">>>>}, e \in {<<>>, (k_X :> <<"v">>)} :
        Enter(t, c, p, e, FALSE)

\* substitute_string where config values hold placeholders for config values
SpecCycle == InitCycle /\ [][NextCall]_vars

\* C1: every call of substitute_string returns a string and none raises, also
\* when a config value refers to itself directly, mutually, or from the default
\* argument of an env or posargs placeholder; at most 10 rounds are run.
C1_TerminatesWithoutRaising ==
    /\ pc # "raised"
    /\ iter <= max_iterations
    /\ pc = "done" => result.exc = ""

-----------------------------------------------------------------------------
(* Inputs: references into config trees of every shape *)

k_k  == <<"k">>
k_py == <<"p", "y">>

\* {[SECTION]KEY}
SectionText(section, key) == Placeholder(<<"[">> \o section \o <<"]">> \o key)

t_named   == SectionText(s_testenv_ \o k_py, k_k)      \* {[testenv:py]k}
t_testenv == SectionText(s_testenv, k_k)               \* {[testenv]k}
t_pkgenv  == SectionText(s_pkgenv, k_k)                \* {[pkgenv]k}
t_tox     == SectionText(s_tox, k_k)                   \* {[tox]k}
t_dotted  == Placeholder(s_env \o <<".">> \o k_py \o <<".">> \o k_k)  \* {env.py.k}
t_plain   == Placeholder(k_k)                          \* {k}
t_incomplete == <<"{", "[", "i", "n", "c", "}">>       \* {[inc}
t_nosection  == <<"{", "[", "]", "k", "e", "y", "}">>  \* {[]key}
t_nokey      == <<"{", "[", "s", "]", "}">>            \* {[s]}

ReferenceTexts == {t_named, t_testenv, t_pkgenv, t_tox, t_dotted, t_plain}
MalformedTexts == {t_incomplete, t_nosection, t_nokey}

\* what may stand where a mapping or a string is expected
Shapes ==
    {VStr(k_k), VStr(<<"z">>), VList(<<VStr(k_k)>>), VList(<<>>), VInt(5), VNone,
     EmptyDict, Dict1(k_k, VStr(<<"v">>)), Dict1(k_k, VInt(5))}

ShapedConfigs ==
    {EmptyDict}
    \cup {Dict1(slot, sh) : slot \in {s_env, s_env_run_base, s_env_pkg_base, k_k},
                            sh \in Shapes}
    \cup {Dict1(s_env, Dict1(k_py, sh)) : sh \in Shapes}
    \cup {Dict2(s_env, Dict1(k_py, sh), s_env_run_base, Dict1(k_k, VStr(<<"w">>))) :
              sh \in Shapes}

InitShapes ==
    \E t \in ReferenceTexts \cup MalformedTexts, c \in ShapedConfigs :
        Enter(t, c, <<>>, <<>>, FALSE)

\* substitute_string on one reference, over config trees of every shape
SpecShapes == InitShapes /\ [][NextCall]_vars

\* the string a path of keys leads to through mappings, if any
HasStrAt(path) == _get_value_by_path(path, config).tag = "str"

\* the reference of the text has no string to read in config
Unreadable ==
    CASE text = t_named   -> ~HasStrAt(<<s_env, k_py, k_k>>)
                             /\ ~HasStrAt(<<s_env_run_base, k_k>>)
      [] text = t_testenv -> ~HasStrAt(<<s_env_run_base, k_k>>)
      [] text = t_pkgenv  -> ~HasStrAt(<<s_env_pkg_base, k_k>>)
      [] text = t_tox     -> ~HasStrAt(<<k_k>>)
      [] text = t_dotted  -> ~HasStrAt(<<s_env, k_py, k_k>>)
      [] text = t_plain   -> ~HasStrAt(<<k_k>>)
      [] OTHER            -> text \in MalformedTexts

\* C2: a section, dotted or plain-key reference whose target cannot be read as
\* a string, and malformed section-bracket text, never make substitute_string
\* raise: the placeholder is returned as its original text.
C2_UnreadableReferenceLeftAsIs ==
    (Finished /\ Unreadable) => result = Ok(text)

-----------------------------------------------------------------------------
(* Inputs: env, posargs and tty placeholders with and without defaults *)

k_K == <<"K">>
k_J == <<"J">>

t_env     == Placeholder(s_env)                        \* {env}
t_posargs == Placeholder(s_posargs)                    \* {posargs}
t_tty     == Placeholder(s_tty)                        \* {tty}

\* {tty:ON} and {tty:ON:OFF}
TtyOnText(on) == Placeholder(s_tty \o <<":">> \o on)
TtyText(on, off) == Placeholder(s_tty \o <<":">> \o on \o <<":">> \o off)

\* default arguments: d, empty, {a}, {env:J:e}
ArgDefaults == {<<"d">>, <<>>, t_a, EnvDefaultText(k_J, <<"e">>)}

TtyOn  == {<<"X">>, EnvText(k_K)}
TtyOff == {<<"Y">>, <<>>}

ArgTexts ==
    {t_env, EnvText(k_K), t_posargs, t_tty}
    \cup {EnvDefaultText(k_K, d) : d \in ArgDefaults}
    \cup {PosargsDefaultText(d) : d \in ArgDefaults}
    \cup {TtyOnText(on) : on \in TtyOn}
    \cup {TtyText(on, off) : on \in TtyOn, off \in TtyOff}

ArgConfigs == {EmptyDict, Dict1(k_a, VStr(<<"w">>)), c_env_default, c_posargs_default}

ArgEnvirons ==
    {<<>>, (k_K :> <<"v">>), (k_J :> <<"j">>), (k_K :> <<"v">>) @@ (k_J :> <<"j">>)}

ArgPosargs == {<<>>, <<<<"p">>>>, <<<<"p">>, <<"q">>>>}

InitArgs ==
    \E t \in ArgTexts, c \in ArgConfigs, p \in ArgPosargs, e \in ArgEnvirons,
       tty \in BOOLEAN :
        Enter(t, c, p, e, tty)

\* substitute_string on one env, posargs or tty placeholder
SpecArgs == InitArgs /\ [][NextCall]_vars

\* C5: {env:K} and {env:K:D} give exactly environ[K] when K is set (the default
\* is ignored), else the substituted default D, else the empty string; {env}
\* without a name is left unchanged.
C5_EnvValueOrDefault ==
    Finished =>
        /\ text = EnvText(k_K)
               => result = Ok(IF k_K \in DOMAIN environ THEN environ[k_K] ELSE <<>>)
        /\ \A d \in ArgDefaults :
               text = EnvDefaultText(k_K, d)
                   => result = IF k_K \in DOMAIN environ THEN Ok(environ[k_K])
                               ELSE substitute_string_at(d, 1)
        /\ text = t_env => result = Ok(t_env)

\* C6: {posargs} and {posargs:D} give the posargs joined by single spaces when
\* there are any (the default is ignored), else the substituted default D, else
\* the empty string.
C6_PosargsOrDefault ==
    Finished =>
        /\ text = t_posargs => result = Ok(Join(<<" ">>, posargs))
        /\ \A d \in ArgDefaults :
               text = PosargsDefaultText(d)
                   => result = IF posargs # <<>> THEN Ok(Join(<<" ">>, posargs))
                               ELSE substitute_string_at(d, 1)

\* C10: the first round replaces {tty:X:Y} by X when standard input is
\* interactive and by Y otherwise, {tty:X} by X or by the empty string, {tty} by
\* the empty string; the call returns that text and never raises.
C10_TtySelectsValue ==
    /\ \A on \in TtyOn, off \in TtyOff :
           text = TtyText(on, off) =>
               /\ pc # "raised"
               /\ iter = 1 => value = (IF isatty THEN on ELSE off)
               /\ (pc = "done" /\ on = <<"X">>)
                      => result = Ok(IF isatty THEN on ELSE off)
    /\ \A on \in TtyOn :
           text = TtyOnText(on) =>
               /\ pc # "raised"
               /\ iter = 1 => value = (IF isatty THEN on ELSE <<>>)
               /\ (pc = "done" /\ ~isatty) => result = Ok(<<>>)
    /\ text = t_tty => (pc # "raised" /\ (iter >= 1 => value = <<>>))

\* {tty:X:Y} returned as X on an interactive standard input
C10_Witness ==
    /\ pc = "done" /\ isatty
    /\ text = TtyText(<<"X">>, <<"Y">>)
    /\ result = Ok(<<"X">>)

-----------------------------------------------------------------------------
(* Inputs: indexed and sliced posargs *)

MaxIndex == 4
MaxArgs == 3

RECURSIVE NatText(_)
\* the decimal digits of a natural number
NatText(n) ==
    IF n < 10 THEN <<Digits[n + 1]>>
    ELSE NatText(n \div 10) \o <<Digits[(n % 10) + 1]>>

IntText(i) == IF i < 0 THEN <<"-">> \o NatText(0 - i) ELSE NatText(i)

IndexRange == ((0 - MaxIndex)..MaxIndex) \cup {10, -10}

NoBound == [some |-> FALSE, n |-> 0]
SliceBounds == {NoBound} \cup {[some |-> TRUE, n |-> i] : i \in (0 - MaxIndex)..MaxIndex}

BoundText(b) == IF b.some THEN IntText(b.n) ELSE <<>>

\* {posargs[I]} and {posargs[A:B]}
IndexInner(i) == s_posargs_ \o IntText(i) \o <<"]">>
SliceInner(a, b) == s_posargs_ \o BoundText(a) \o <<":">> \o BoundText(b) \o <<"]">>
IndexText(i) == Placeholder(IndexInner(i))
SliceText(a, b) == Placeholder(SliceInner(a, b))

t_index_word    == Placeholder(s_posargs_ \o <<"a", "b", "c", "]">>)            \* {posargs[abc]}
t_index_slices  == Placeholder(s_posargs_ \o <<"1", ":", "2", ":", "3", "]">>)  \* {posargs[1:2:3]}
t_index_open    == Placeholder(s_posargs_ \o <<"0">>)                           \* {posargs[0}
t_index_trailer == Placeholder(s_posargs_ \o <<"0", "]", "x">>)                 \* {posargs[0]x}

InvalidIndexTexts == {t_index_word, t_index_slices, t_index_open, t_index_trailer}

IndexTexts ==
    {IndexText(i) : i \in IndexRange}
    \cup {SliceText(a, b) : a \in SliceBounds, b \in SliceBounds}
    \cup InvalidIndexTexts

ArgWords == {<<"a">>, <<"b">>}

IndexPosargs == UNION {[1..n -> ArgWords] : n \in 0..MaxArgs}

InitIndex ==
    \E t \in IndexTexts, p \in IndexPosargs : Enter(t, EmptyDict, p, <<>>, FALSE)

\* substitute_string on one posargs[...] placeholder
SpecIndex == InitIndex /\ [][NextCall]_vars

\* C7: {posargs[i]} resolves to element i for 0 <= i < n, to element n + i for
\* -n <= i < 0, and to the empty string for every other integer i, n = 0 included.
C7_IndexedPosarg ==
    \A i \in IndexRange :
        text = IndexText(i) =>
            LET n == Len(posargs)
                want == IF 0 <= i /\ i < n THEN posargs[i + 1]
                        ELSE IF 0 - n <= i /\ i < 0 THEN posargs[n + i + 1]
                        ELSE <<>>
            IN  /\ pc # "raised"
                /\ iter = 1 => value = want
                /\ pc = "done" => result = Ok(want)

\* an index counted from the end picked the element
C7_Witness ==
    /\ pc = "done"
    /\ text = IndexText(-1)
    /\ Len(posargs) = 2
    /\ result = Ok(posargs[2])

\* posargs[lo], .. posargs[hi - 1] (0-based) for bounds a, b of a slice
SliceRange(args, a, b) ==
    LET n == Len(args)
        FromEnd(x) == IF x < 0 THEN n + x ELSE x
        Within(x) == IF x < 0 THEN 0 ELSE IF x > n THEN n ELSE x
        lo == IF a.some THEN Within(FromEnd(a.n)) ELSE 0
        hi == IF b.some THEN Within(FromEnd(b.n)) ELSE n
    IN  [j \in 1..(IF hi > lo THEN hi - lo ELSE 0) |-> args[lo + j]]

\* C8: {posargs[a:b]} resolves to the space-join of the half-open range [a, b),
\* negative bounds counted from the end and bounds out of range clamped, empty
\* range giving the empty string; the parser keeps the expression in one part.
C8_SlicedPosargs ==
    \A a \in SliceBounds, b \in SliceBounds :
        text = SliceText(a, b) =>
            LET want == Join(<<" ">>, SliceRange(posargs, a, b))
            IN  /\ pc # "raised"
                /\ iter = 1 => value = want
                /\ pc = "done" => result = Ok(want)
                /\ _parse_substitution(SliceInner(a, b)) = <<SliceInner(a, b), <<>>>>

\* a slice with a bound counted from the end returned two joined elements
C8_Witness ==
    /\ pc = "done"
    /\ text = SliceText([some |-> TRUE, n |-> -2], NoBound)
    /\ Len(posargs) = 3
    /\ result = Ok(posargs[2] \o <<" ">> \o posargs[3])

\* C9: a placeholder that begins with posargs[ and has invalid index syntax is
\* returned as its original text, whatever the posargs.
C9_InvalidIndexLeftAsIs ==
    (Finished /\ text \in InvalidIndexTexts) => result = Ok(text)

-----------------------------------------------------------------------------
(* Inputs: section, dotted and plain-key references and what they point at *)

k_m      == <<"m">>
s_other  == <<"o", "t", "h", "e", "r">>
k_a_dot_b == <<"a", ".", "b">>

\* what a key may hold: plain text, a placeholder, an escape marker, no string
Leaves ==
    {VStr(<<"v">>), VStr(t_plain), VStr(<<"\\", "{">>), VList(<<VStr(<<"v">>)>>),
     VInt(5), VNone, EmptyDict}

Words == {VStr(<<"v">>), VStr(<<"w">>), VInt(5)}

TableSections == {s_tox, s_tox_tox, s_testenv, s_pkgenv}
OtherSections == {s_other, s_env_run_base}
RefKeys == {k_k, k_m}

DottedPaths == {<<k_a, k_b>>, <<k_a, k_b, k_k>>, <<s_env, k_py, k_k>>}

\* {a.b.c}
DottedText(path) == Placeholder(Join(<<".">>, path))

PlainKinds == {k_k, k_m, <<>>}
PlainArgs  == {<<>>, <<":", "x">>}

RefTexts ==
    {SectionText(S, key) : S \in TableSections \cup OtherSections \cup {s_testenv_ \o k_py},
                           key \in RefKeys}
    \cup {DottedText(path) : path \in DottedPaths}
    \cup {Placeholder(K \o a) : K \in PlainKinds, a \in PlainArgs}

RefConfigs ==
    ShapedConfigs
    \cup {Dict1(k_k, leaf) : leaf \in Leaves}
    \cup {Dict1(slot, Dict1(k_k, leaf)) : slot \in {s_env_run_base, s_env_pkg_base},
                                           leaf \in Leaves}
    \cup {Dict2(s_env_run_base, Dict1(k_k, l1), s_env_pkg_base, Dict1(k_k, l2)) :
              l1 \in Words, l2 \in Words}
    \cup {Dict1(s_env, Dict1(k_py, Dict1(k_k, own))) : own \in Leaves}
    \cup {Dict2(s_env, Dict1(k_py, Dict1(k_k, own)), s_env_run_base, Dict1(k_k, base)) :
              own \in Leaves, base \in Words}
    \cup {Dict2(s_env, Dict1(k_a, Dict1(k_k, VStr(<<"v">>))),
                s_env_run_base, Dict1(k_k, base)) : base \in Words}
    \cup {Dict1(k_a, Dict1(k_b, leaf)) : leaf \in Leaves}
    \cup {Dict1(k_a, Dict1(k_b, Dict1(k_k, leaf))) : leaf \in Leaves}
    \cup {Dict1(k_a, leaf) : leaf \in Leaves}
    \cup {Dict1(k_a_dot_b, leaf) : leaf \in Leaves}
    \cup {Dict2(k_a, Dict1(k_b, l1), k_a_dot_b, l2) : l1 \in Words, l2 \in Words}

InitRefs ==
    \E t \in RefTexts, c \in RefConfigs : Enter(t, c, <<>>, <<>>, FALSE)

\* substitute_string on one reference into a config tree
SpecRefs == InitRefs /\ [][NextCall]_vars

Absent == [tag |-> "absent", val |-> 0]

\* what mapping m holds under key k
Child(m, k) == IF m.tag = "dict" /\ k \in DOMAIN m.val THEN m.val[k] ELSE Absent

MappingOrAbsent(v) == v.tag \in {"dict", "absent"}

\* the mapping the table sends a section name to, Absent for a name not in it
SectionTarget(S) ==
    CASE S \in {s_tox, s_tox_tox} -> config
      [] S = s_testenv -> Child(config, s_env_run_base)
      [] S = s_pkgenv  -> Child(config, s_env_pkg_base)
      [] OTHER -> Absent

\* the string under the key, else the text as it was
StrOrText(v) == IF v.tag = "str" THEN v.val ELSE text

NamedOwn(key)  == Child(Child(Child(config, s_env), k_py), key)
NamedBase(key) == Child(Child(config, s_env_run_base), key)

\* env, env[py] and env_run_base are mappings where they exist
NamedShaped ==
    /\ MappingOrAbsent(Child(config, s_env))
    /\ MappingOrAbsent(Child(Child(config, s_env), k_py))
    /\ MappingOrAbsent(Child(config, s_env_run_base))

\* C12 as stated: {[testenv:NAME]key} gives env[NAME][key] when that is
\* present, whatever env_run_base holds, and env_run_base[key] only when the
\* environment has no value of its own; else the text as it was.
C12_OwnValueAlwaysFirst ==
    \A key \in RefKeys :
        (text = SectionText(s_testenv_ \o k_py, key) /\ NamedShaped) =>
            /\ pc # "raised"
            /\ iter = 1 =>
                 value = IF NamedOwn(key) # Absent THEN StrOrText(NamedOwn(key))
                         ELSE StrOrText(NamedBase(key))

\* C12 amended: {[testenv:NAME]key} gives env[NAME][key] when that is a string,
\* otherwise env_run_base[key] when that is a string, else the text as it was;
\* a string of the environment itself always wins over the base value.
C12_OwnStringFirst ==
    \A key \in RefKeys :
        (text = SectionText(s_testenv_ \o k_py, key) /\ NamedShaped) =>
            /\ pc # "raised"
            /\ iter = 1 =>
                 value = IF NamedOwn(key).tag = "str" THEN NamedOwn(key).val
                         ELSE StrOrText(NamedBase(key))

\* the environment's own string won over a base string
C12_Witness ==
    /\ iter = 1
    /\ text = t_named
    /\ NamedOwn(k_k) = VStr(<<"v">>)
    /\ NamedBase(k_k) = VStr(<<"w">>)
    /\ value = <<"v">>

\* what the walk along a path of two or three keys reaches
PathTarget(path) ==
    IF Len(path) = 2 THEN Child(Child(config, path[1]), path[2])
    ELSE Child(Child(Child(config, path[1]), path[2]), path[3])

\* C13 as stated: {a.b.c} gives the string the walk along the path reaches, and
\* the text as it was whenever a key is missing, an intermediate value is no
\* mapping or the terminal value is no string.
C13_DottedOrUnchanged ==
    \A path \in DottedPaths :
        text = DottedText(path) =>
            /\ pc # "raised"
            /\ iter = 1 => value = StrOrText(PathTarget(path))

\* C13 amended: {a.b.c} gives the string the walk along the path reaches; when
\* the walk fails, the whole text a.b.c is tried as a top-level key with a string
\* value, and only then is the text left as it was.
C13_DottedThenPlainKey ==
    \A path \in DottedPaths :
        text = DottedText(path) =>
            /\ pc # "raised"
            /\ iter = 1 =>
                 value = IF PathTarget(path).tag = "str" THEN PathTarget(path).val
                         ELSE StrOrText(Child(config, Join(<<".">>, path)))

\* a walk of three keys reached a string
C13_Witness ==
    /\ iter = 1
    /\ text = DottedText(<<k_a, k_b, k_k>>)
    /\ config = Dict1(k_a, Dict1(k_b, Dict1(k_k, VStr(<<"v">>))))
    /\ value = <<"v">>

\* C14: a placeholder of no built-in kind gives config[kind] exactly when the
\* kind is a top-level key with a string value; otherwise (key absent, value
\* no string, empty braces) one round leaves {innerText} as it was.
C14_PlainKeyOrUnchanged ==
    \A K \in PlainKinds, a \in PlainArgs :
        text = Placeholder(K \o a) =>
            /\ pc # "raised"
            /\ iter = 1 => value = StrOrText(Child(config, K))

\* {k:x} with a number under k came back whole, argument included
C14_Witness ==
    /\ pc = "done"
    /\ iter = 1
    /\ text = Placeholder(k_k \o <<":", "x">>)
    /\ config = Dict1(k_k, VInt(5))
    /\ result = Ok(text)

-----------------------------------------------------------------------------
(* Inputs: values that hold inline tables { replace = ... } *)

k_l == <<"l">>
k_s == <<"s">>
k_e == <<"e">>
s_zzz == <<"z", "z", "z">>

v_v == VStr(<<"v">>)
v_u == VStr(<<"u">>)

\* a mapping with the entry added
With(spec, key, v) == VDict((key :> v) @@ spec.val)

\* the optional entries of an inline table: Absent leaves the key out
WithOptional(spec, key, v) == IF v.tag = "absent" THEN spec ELSE With(spec, key, v)

\* { replace = tag, default = .., extend = .. }
InlineSpec(tag, default, extend) ==
    WithOptional(WithOptional(Dict1(s_replace, VStr(tag)), s_default, default),
                 s_extend, extend)

Defaults == {Absent, VStr(<<"d">>), VList(<<VStr(<<"a">>), VStr(<<"b">>)>>), VList(<<>>)}
Extends  == {Absent, VBool(TRUE), VBool(FALSE)}

\* what `of` may be: paths to a list, a string, a nested list, an empty list,
\* nothing; an empty path; a str in place of a list; no `of` at all
OfPaths ==
    {VList(<<VStr(k_l)>>), VList(<<VStr(k_s)>>), VList(<<VStr(k_a), VStr(k_b)>>),
     VList(<<VStr(k_e)>>), VList(<<VStr(k_m)>>), VList(<<VStr(k_s), VStr(k_b)>>),
     VList(<<>>), VStr(k_l), Absent}

PosargsSpecs == {InlineSpec(s_posargs, d, x) : d \in Defaults, x \in Extends}
EnvSpecs ==
    {WithOptional(InlineSpec(s_env, d, x), s_name, n) :
        d \in Defaults \ {VList(<<>>)}, x \in Extends, n \in {VStr(k_K), Absent}}
RefSpecs ==
    {WithOptional(InlineSpec(s_ref, d, x), s_of, of) :
        d \in Defaults \ {VList(<<>>)}, x \in Extends, of \in OfPaths}
UnknownSpecs == {Dict1(s_replace, VStr(s_zzz)), Dict1(s_replace, VInt(5))}

KnownSpecs == PosargsSpecs \cup EnvSpecs \cup RefSpecs

\* the tree the ref tables point into:
\* l = ["x", ["y"], "{s}"], s = "w", a.b = ["z"], e = []
c_tree ==
    VDict((k_l :> VList(<<VStr(<<"x">>), VList(<<VStr(<<"y">>)>>), VStr(Placeholder(k_s))>>))
          @@ (k_s :> VStr(<<"w">>))
          @@ (k_a :> Dict1(k_b, VList(<<VStr(<<"z">>)>>)))
          @@ (k_e :> VList(<<>>)))

\* the table as a list element between two strings, and as a mapping value
ListAround(spec) == VList(<<v_v, spec, v_u>>)
Under(spec) == Dict1(k_k, spec)

ValueArgs ==
    UNION {{spec, ListAround(spec), Under(spec)} : spec \in KnownSpecs \cup UnknownSpecs}
    \cup {VStr(Placeholder(k_s)), VInt(5), VBool(TRUE), VNone, c_tree}

ValuePosargs == {<<>>, <<<<"p">>>>, <<<<"p">>, <<"q">>>>}
ValueEnvirons == {<<>>, (k_K :> <<"j">>)}

InitValue ==
    \E v \in ValueArgs, p \in ValuePosargs, e \in ValueEnvirons :
        EnterValue(v, c_tree, p, e)

\* substitute_value on a value that holds one inline table
SpecValue == InitValue /\ [][NextValue]_vars

\* the call has taken the table: as the argument itself, or as the second item
Taken(spec) ==
    \/ arg = spec /\ vpc \in {"done", "raised"}
    \/ arg = ListAround(spec) /\ item >= 2

\* substitute_value of one resolved item, as the list loop calls it
Substituted(v) == substitute_value_at(v, 1).val

\* C15: in a list, a table whose resolution is a list with extend set is
\* replaced by the substituted items of that list, spliced in place one level
\* deep; any other resolution is appended as one element; the neighbours keep
\* their order; an empty list with extend adds nothing.
C15_ExtendSplicesOneLevel ==
    \A spec \in KnownSpecs :
        arg = ListAround(spec) =>
            /\ vpc # "raised"
            /\ vpc = "done" =>
                 vresult.val =
                    VList(<<v_v>>
                          \o (IF resolved.extend /\ resolved.val.tag = "list"
                              THEN [i \in 1..Len(resolved.val.val) |->
                                       Substituted(resolved.val.val[i])]
                              ELSE <<Substituted(resolved.val)>>)
                          \o <<v_u>>)

\* a referenced list spliced between its neighbours, its inner list kept nested
C15_Witness ==
    /\ vpc = "done"
    /\ arg = ListAround(With(Dict1(s_replace, VStr(s_ref)), s_of, VList(<<VStr(k_l)>>)))
    /\ vresult.val = VList(<<v_v, VStr(<<"x">>), VList(<<VStr(<<"y">>)>>),
                             VStr(<<"w">>), v_u>>)

\* the flag and the default of a table
Flagged(spec) == s_extend \in DOMAIN spec.val /\ spec.val[s_extend] = VBool(TRUE)
DefaultOf(spec) == Child(spec, s_default)

\* a posargs table with empty posargs: the default with the table's own flag,
\* or [] / "" when there is none
EmptyPosargsResolved(spec) ==
    IF DefaultOf(spec) # Absent THEN Resolved(DefaultOf(spec), Flagged(spec))
    ELSE Resolved(IF Flagged(spec) THEN VList(<<>>) ELSE VStr(<<>>), Flagged(spec))

OfTarget(of) ==
    IF of.tag # "list" \/ of.val = <<>> THEN Absent
    ELSE IF Len(of.val) = 1 THEN Child(config, of.val[1].val)
    ELSE Child(Child(config, of.val[1].val), of.val[2].val)

\* the value with extend forced by a list
AutoExtend(v, spec) == Resolved(v, Flagged(spec) \/ v.tag = "list")

\* C17: a ref table resolves to the value the key path `of` leads to through
\* mappings, with extend = (flag or the value is a list); if `of` is empty, no
\* list, or leads nowhere, to the default under the same rule; without a
\* default to "". A referenced list is spliced without a flag.
C17_RefAutoExtends ==
    \A spec \in RefSpecs :
        /\ Taken(spec) =>
             resolved =
                IF OfTarget(Child(spec, s_of)) # Absent
                THEN AutoExtend(OfTarget(Child(spec, s_of)), spec)
                ELSE IF DefaultOf(spec) # Absent THEN AutoExtend(DefaultOf(spec), spec)
                ELSE Resolved(VStr(<<>>), Flagged(spec))
        /\ (/\ arg = ListAround(spec) /\ vpc = "done"
            /\ Child(spec, s_of) = VList(<<VStr(k_a), VStr(k_b)>>))
           => vresult.val = VList(<<v_v, VStr(<<"z">>), v_u>>)

\* a path that leads nowhere, a list default and no flag: the default spliced
C17_Witness ==
    /\ vpc = "done"
    /\ arg = ListAround(With(InlineSpec(s_ref, VList(<<VStr(<<"a">>), VStr(<<"b">>)>>),
                                        Absent),
                             s_of, VList(<<VStr(k_m)>>)))
    /\ resolved = Resolved(VList(<<VStr(<<"a">>), VStr(<<"b">>)>>), TRUE)
    /\ vresult.val = VList(<<v_v, VStr(<<"a">>), VStr(<<"b">>), v_u>>)

\* C18: a mapping with a replace key whose tag is none of posargs, env, ref
\* comes back unchanged and unspliced from substitute_value, whether it stands
\* alone, as a mapping value or as a list element; the call terminates.
C18_UnknownTagReturned ==
    \A spec \in UnknownSpecs :
        (arg \in {spec, ListAround(spec), Under(spec)} /\ vpc \in {"done", "raised"}) =>
            /\ vpc = "done"
            /\ vresult.val = arg

-----------------------------------------------------------------------------
(* Inputs: whole configurations, and calls of every entry point *)

\* substitute_config(c): the tree is both the value and the context
InitConfig ==
    \E spec \in KnownSpecs \cup UnknownSpecs, p \in ValuePosargs, e \in ValueEnvirons :
        EnterValue(With(c_tree, k_k, ListAround(spec)),
                   With(c_tree, k_k, ListAround(spec)), p, e)

\* calls of substitute_string, substitute_value and substitute_config
SpecFrame ==
    (InitCycle \/ InitValue \/ InitConfig) /\ [][NextCall \/ NextValue]_vars

\* C19: substitute_config, substitute_value and substitute_string leave config,
\* posargs and environ as they were, for every input, returning or raising; no
\* list or mapping of the result is an object of the inputs.
C19_InputsUntouched ==
    /\ [][config' = config /\ posargs' = posargs /\ environ' = environ]_vars
    /\ [](vpc = "done" => ~vresult.aliased)

\* substitute_config returned a tree whose list under k holds the items of the
\* list that config holds under l, and config still holds that list
C19_Witness ==
    /\ vpc = "done"
    /\ arg = config
    /\ k_k \in DOMAIN config.val
    /\ config.val[k_k] =
           ListAround(With(Dict1(s_replace, VStr(s_ref)), s_of, VList(<<VStr(k_l)>>)))
    /\ vresult.val.val[k_k].val[3] = config.val[k_l].val[2]
    /\ ~vresult.aliased

-----------------------------------------------------------------------------
(* Inputs: directories with every combination of candidate files *)

IniFiles == {Missing, File("text", {}, InvalidToml)}

CfgFiles ==
    {Missing, File("undecodable", {}, InvalidToml)}
    \cup {File("text", marks, InvalidToml) :
             marks \in SUBSET {"[tox:tox]", "[testenv]", "[metadata]"}}

\* what tomli.loads gives for a pyproject.toml
PyprojectTables ==
    {EmptyDict,
     Dict1(s_tool, EmptyDict),
     Dict1(s_tool, Dict1(s_other, EmptyDict)),
     Dict1(s_tool, Dict1(s_tox, EmptyDict)),
     Dict1(s_tool, Dict1(s_tox, Dict1(s_legacy_tox_ini, VStr(<<"x">>)))),
     Dict1(s_tool, Dict1(s_tox, Dict1(k_k, VStr(<<"x">>)))),
     Dict1(s_tool, Dict1(s_tox, VStr(<<"x">>))),
     Dict1(s_tool, Dict1(s_tox, VInt(5))),
     Dict1(s_tool, Dict1(s_tox, VList(<<>>))),
     Dict1(s_tool, VInt(1)),
     Dict1(s_tool, VStr(<<"x">>))}

PyprojectFiles ==
    {Missing, File("undecodable", {}, InvalidToml), File("text", {}, InvalidToml)}
    \cup {File("text", {}, data) : data \in PyprojectTables}

TomlFiles == {Missing, File("text", {}, EmptyDict)}

InitFind ==
    \E ini \in IniFiles, cfg \in CfgFiles, py \in PyprojectFiles, toml \in TomlFiles :
        EnterFind([name |-> "d",
                   files |-> ("tox.ini" :> ini) @@ ("setup.cfg" :> cfg)
                             @@ ("pyproject.toml" :> py) @@ ("tox.toml" :> toml)])

\* find_config_file on one directory
SpecFind == InitFind /\ [][NextFind]_vars

\* the documented order of the candidates
Priority ==
    << <<"tox.ini", "ToxINIConfigReader">>,
       <<"setup.cfg", "SetupCfgConfigReader">>,
       <<"pyproject.toml", "PyprojectLegacyINIConfigReader">>,
       <<"pyproject.toml", "PyprojectTOMLConfigReader">>,
       <<"tox.toml", "ToxTOMLConfigReader">> >>

\* candidate i is accepted by its reader
Accepted(i) ==
    /\ can_read(Priority[i][2], Priority[i][1], directory.files[Priority[i][1]]).exc = ""
    /\ can_read(Priority[i][2], Priority[i][1], directory.files[Priority[i][1]]).ok

FirstAccepted ==
    CHOOSE i \in 1..Len(Priority) : Accepted(i) /\ \A j \in 1..(i - 1) : ~Accepted(j)

\* C20: find_config_file returns the path and reader of the first candidate, in
\* the order tox.ini, setup.cfg, pyproject.toml (legacy, then native), tox.toml,
\* whose reader accepts it, whatever other files exist; it raises
\* FileNotFoundError naming the directory and the filenames exactly when no
\* candidate is accepted.
C20_FirstAcceptedCandidate ==
    located.state \in {"returned", "raised"} =>
        IF \E i \in 1..Len(Priority) : Accepted(i)
        THEN /\ located.state = "returned"
             /\ located.path = <<directory.name, Priority[FirstAccepted][1]>>
             /\ located.reader = Priority[FirstAccepted][2]
        ELSE /\ located.exc = "FileNotFoundError"
             /\ located.message = <<directory.name>> \o SearchedFor

-----------------------------------------------------------------------------
(* C21: the rounds of substitute_string *)

k_c == <<"c">>

c_grow  == Dict2(k_a, VStr(<<"x", "x">>), k_b, VStr(t_a \o t_a)) \* a = "xx", b = "{a}{a}"
c_three == VDict((k_a :> VStr(t_b)) @@ (k_b :> VStr(Placeholder(k_c))) @@ (k_c :> VStr(<<>>)))

RoundConfigs == {c_self, c_same, c_mutual, c_chain, c_grow, c_three, EmptyDict}

RoundTexts ==
    {t_a, t_b, <<"x">> \o t_a, t_a \o t_b, t_b \o t_a, t_b \o <<"x">> \o t_a \o t_b,
     <<"x">>, <<"\\", "{">> \o t_b \o <<"\\", "}">>, Placeholder(t_a)}

InitRounds ==
    \E t \in RoundTexts, c \in RoundConfigs : Enter(t, c, <<>>, <<>>, FALSE)

\* substitute_string on texts of several spans whose replacements differ in length
SpecRounds == InitRounds /\ [][NextCall]_vars

RECURSIVE Assembled(_, _, _, _)
\* v from index `from` on, the spans k, k+1, .. each replaced by what its inner
\* text resolves to, the text between the spans kept
Assembled(v, spans, k, from) ==
    IF k > Len(spans) THEN Slice(v, from, Len(v))
    ELSE Slice(v, from, spans[k].start)
             \o _substitute_single(spans[k].expr, 0).val
             \o Assembled(v, spans, k + 1, spans[k].end)

RECURSIVE Repeated(_, _)
Repeated(s, n) == IF n = 0 THEN <<>> ELSE s \o Repeated(s, n - 1)

\* C21: a call runs rounds on the current text: a round is run only while the
\* last one changed the text and fewer than 10 were run, and it puts every
\* span's resolution, resolved from the text of the round's start, in the
\* span's place; the round after an unchanged one is never run; the call
\* returns the current text with the escape markers dropped; with a = "x{a}"
\* the text {a} gives ten x and {a}.
C21_Rounds ==
    /\ [](iter <= 10)
    /\ [][(pc = "loop" /\ pc' = "loop")
            => /\ value # prev_value /\ iter < 10
               /\ iter' = iter + 1
               /\ prev_value' = value
               /\ value' = Assembled(value, _find_substitutions(value), 1, 0)]_vars
    /\ [][(pc = "loop" /\ value = prev_value) => pc' = "done"]_vars
    /\ [][pc' = "done"
            => /\ value = prev_value \/ iter = 10
               /\ result' = Ok(DropMarkers(value, 1))]_vars
    /\ []((pc = "done" /\ config = c_self /\ text = t_a)
            => result = Ok(Repeated(<<"x">>, 10) \o t_a))

\* the tenth round still changed the text of {a} under a = "x{a}"
C21_Witness ==
    /\ pc = "done" /\ iter = 10 /\ value # prev_value
    /\ config = c_self /\ text = t_a
    /\ result = Ok(Repeated(<<"x">>, 10) \o t_a)

-----------------------------------------------------------------------------
(* C22, C23: the spans of a text *)

RECURSIVE BackslashRun(_, _, _)
\* how many backslashes directly precede index p of s, none before index lo
BackslashRun(s, lo, p) ==
    IF p - 1 < lo \/ At(s, p - 1) # "\\" THEN 0
    ELSE 1 + BackslashRun(s, lo, p - 1)

\* the character at p is the second of an escaped pair, pairs read from lo on
EscapedFrom(s, lo, p) == BackslashRun(s, lo, p) % 2 = 1

\* the change of nesting depth at index p of a span opened at start
DepthStep(s, start, p) ==
    IF EscapedFrom(s, start + 1, p) THEN 0
    ELSE IF At(s, p) = "{" THEN 1
    ELSE IF At(s, p) = "}" THEN -1
    ELSE 0

RECURSIVE DepthAt(_, _, _)
\* the nesting depth after index p, the brace at start counted
DepthAt(s, start, p) ==
    IF p = start THEN 1 ELSE DepthAt(s, start, p - 1) + DepthStep(s, start, p)

\* p is the first index at which the brace opened at start is closed
ClosedAt(s, start, p) ==
    /\ DepthAt(s, start, p) = 0
    /\ \A q \in start..(p - 1) : DepthAt(s, start, q) # 0

HasClose(s, start) == \E p \in (start + 1)..(Len(s) - 1) : ClosedAt(s, start, p)

t_open_then_span == <<"{", "a", " ", "{", "b", "}">>          \* {a {b}

\* C22: the spans found in the current text come in increasing order and do
\* not overlap; each starts at a { and ends just past the } that first brings
\* the nesting depth back to zero, its inner text being the characters between
\* the two; a { that no backslash precedes and no earlier span holds starts a
\* span exactly when some } closes it; {a {b} has the one span {b}.
C22_SpansWellFormed ==
    /\ \A k \in 1..Len(_find_substitutions(value)) :
         LET sp == _find_substitutions(value)[k]
         IN  /\ 0 <= sp.start /\ sp.end <= Len(value)
             /\ At(value, sp.start) = "{"
             /\ At(value, sp.end - 1) = "}"
             /\ ClosedAt(value, sp.start, sp.end - 1)
             /\ sp.expr = Slice(value, sp.start + 1, sp.end - 1)
             /\ k > 1 => _find_substitutions(value)[k - 1].end <= sp.start
    /\ \A i \in 0..(Len(value) - 1) :
         (/\ At(value, i) = "{"
          /\ i = 0 \/ At(value, i - 1) # "\\"
          /\ \A k \in 1..Len(_find_substitutions(value)) :
                 ~(/\ _find_substitutions(value)[k].start < i
                   /\ i < _find_substitutions(value)[k].end))
         => (HasClose(value, i)
               <=> \E k \in 1..Len(_find_substitutions(value)) :
                       _find_substitutions(value)[k].start = i)
    /\ _find_substitutions(t_open_then_span)
         = << [start |-> 3, end |-> 6, expr |-> <<"b">>] >>

\* {{x}: the first brace is never closed, the span {x} after it is found
C22_Witness ==
    /\ value = <<"{", "{", "x", "}">>
    /\ pc = "loop" /\ iter = 0
    /\ _find_substitutions(value) = << [start |-> 1, end |-> 4, expr |-> <<"x">>] >>

t_escaped_backslash == <<"\\", "\\", "{", "x", "}">>           \* \\{x}

\* C23: outside a span as inside one, a backslash and the character after it
\* are one escaped unit: a { of the current text that no earlier span holds
\* starts a span exactly when an even number of backslashes precedes it and
\* some } closes it; \\{x} has the span {x}.
C23_EscapedUnitsAgree ==
    /\ \A i \in 0..(Len(value) - 1) :
         (/\ At(value, i) = "{"
          /\ \A k \in 1..Len(_find_substitutions(value)) :
                 ~(/\ _find_substitutions(value)[k].start < i
                   /\ i < _find_substitutions(value)[k].end))
         => ((\E k \in 1..Len(_find_substitutions(value)) :
                  _find_substitutions(value)[k].start = i)
               <=> (~EscapedFrom(value, 0, i) /\ HasClose(value, i)))
    /\ value = t_escaped_backslash
         => _find_substitutions(value) = << [start |-> 2, end |-> 5, expr |-> <<"x">>] >>

-----------------------------------------------------------------------------
(* C24: the expression parser *)

MaxInner == 3

InnerAlphabet == {"\\", "{", "}", ":", "[", "]", "x"}

i_env_nested   == <<"e", "n", "v", ":", "A", ":">> \o Placeholder(<<"e", "n", "v", ":", "B", ":", "c">>)
i_slice        == s_posargs_ \o <<"1", ":", "3", "]">>                  \* posargs[1:3]
i_bracket_args == <<"a", "[", ":", "]", ":", "b", ":", "[", "c", ":", "d", "]">>
i_escaped      == <<"a", "\\", ":", "b", ":", "\\", "{", "c">>          \* a\:b:\{c

NamedInners == {i_env_nested, i_slice, i_bracket_args, i_escaped, <<":">>, <<"/">>}

InnerTexts == UNION {[1..k -> InnerAlphabet] : k \in 0..MaxInner} \cup NamedInners

InitParse ==
    \E inner \in InnerTexts, c \in {EmptyDict, c_x} :
        Enter(Placeholder(inner), c, <<>>, <<>>, FALSE)

\* substitute_string on one placeholder of every short inner text
SpecParse == InitParse /\ [][NextCall]_vars

\* the character at p is written after a backslash as literal content
Literal(e, p) == p >= 1 /\ At(e, p - 1) = "\\" /\ At(e, p) \in Special

\* how many of the characters before p are an unescaped c
CountBefore(e, p, c) ==
    Cardinality({q \in 0..(p - 1) : At(e, q) = c /\ ~Literal(e, q)})

\* the colons at which the inner text is split
SplitPoints(e) ==
    {p \in 0..(Len(e) - 1) :
        /\ At(e, p) = ":" /\ ~Literal(e, p)
        /\ CountBefore(e, p, "{") = CountBefore(e, p, "}")
        /\ CountBefore(e, p, "[") = CountBefore(e, p, "]")}

NextSplit(e, lo) ==
    CHOOSE p \in SplitPoints(e) : p >= lo /\ \A q \in SplitPoints(e) : q >= lo => p <= q

RECURSIVE PartsFrom(_, _)
\* the parts of e from index lo on, escape markers dropped
PartsFrom(e, lo) ==
    IF \A p \in SplitPoints(e) : p < lo
    THEN << DropMarkers(Slice(e, lo, Len(e)), 1) >>
    ELSE << DropMarkers(Slice(e, lo, NextSplit(e, lo)), 1) >>
             \o PartsFrom(e, NextSplit(e, lo) + 1)

KindArgs(e) ==
    IF e = <<":">> THEN << s_pathsep, <<>> >>
    ELSE IF e = <<"/">> THEN << s_sep, <<>> >>
    ELSE << Head(PartsFrom(e, 0)), Tail(PartsFrom(e, 0)) >>

\* C24: the inner text of every span of the current text is parsed into the
\* part before the first colon at which neither a brace nor a bracket is open
\* (the kind) and the parts between the further such colons, in order (the
\* args); : and / alone are pathsep and sep without args; env:A:{env:B:c} has
\* the args A and {env:B:c}.
C24_SplitAtDepthZero ==
    /\ \A k \in 1..Len(_find_substitutions(value)) :
           _parse_substitution(_find_substitutions(value)[k].expr)
               = KindArgs(_find_substitutions(value)[k].expr)
    /\ text = Placeholder(i_env_nested) =>
           _parse_substitution(i_env_nested)
               = << s_env, << <<"A">>, Placeholder(<<"e", "n", "v", ":", "B", ":", "c">>) >> >>
    /\ text = Placeholder(<<":">>) => _parse_substitution(<<":">>) = << s_pathsep, <<>> >>
    /\ text = Placeholder(<<"/">>) => _parse_substitution(<<"/">>) = << s_sep, <<>> >>

\* {env:A:{env:B:c}} substituted: A unset, the default resolved in its turn
C24_Witness ==
    /\ pc = "done" /\ text = Placeholder(i_env_nested)
    /\ _parse_substitution(i_env_nested)[2] = << <<"A">>, Placeholder(<<"e", "n", "v", ":", "B", ":", "c">>) >>
    /\ result = Ok(<<"c">>)

-----------------------------------------------------------------------------
(* C25, C30: escaped defaults, and values that hold placeholders *)

k_H == <<"H">>
k_x == <<"x">>

i_escaped_x == <<"\\", "{", "x", "\\", "}">>                   \* \{x\}
t_x         == Placeholder(k_x)                                 \* {x}
t_env_H     == EnvText(k_H)                                     \* {env:H}
t_unclosed  == <<"{", "j">>                                     \* {j

t_posargs_escaped == PosargsDefaultText(i_escaped_x)            \* {posargs:\{x\}}
t_env_escaped     == EnvDefaultText(k_K, i_escaped_x)           \* {env:K:\{x\}}

InsertTexts ==
    {EnvText(k_K), t_posargs, t_posargs_escaped, t_env_escaped,
     <<"a">> \o EnvText(k_K) \o <<"b">>}

\* values without a span, and values that are a placeholder
SpanlessValues == {<<"j">>, t_unclosed, i_escaped_x}
InsertValues   == SpanlessValues \cup {t_posargs, t_x, t_env_H}

InsertEnvirons ==
    {<<>>, (k_H :> <<"h">>)}
        \cup {(k_K :> v) : v \in InsertValues}
        \cup {(k_K :> v) @@ (k_H :> <<"h">>) : v \in InsertValues}

PlainPosargs  == {<<>>, <<<<"p">>>>, <<<<"p">>, <<"q">>>>}
InsertPosargs == PlainPosargs \cup {<<t_env_H>>, <<t_unclosed>>}

env_K_spec == With(Dict1(s_replace, VStr(s_env)), s_name, VStr(k_K))  \* {replace: env, name: K}

InitInsert ==
    \E c \in {EmptyDict, c_x}, p \in InsertPosargs, e \in InsertEnvirons :
        \/ \E t \in InsertTexts : Enter(t, c, p, e, FALSE)
        \/ EnterValue(env_K_spec, c, p, e)

\* substitute_string, and substitute_value on an inline env table, where the
\* environment and the positional arguments hold placeholders
SpecInsert == InitInsert /\ [][Iterate \/ Return \/ ValueCall]_vars

\* C25: {posargs:\{x\}} with no positional arguments, and {env:K:\{x\}} with K
\* unset, give the literal {x}, whether or not config has a key x.
C25_EscapedDefaultStaysLiteral ==
    (/\ pc = "done"
     /\ \/ text = t_posargs_escaped /\ posargs = <<>>
        \/ text = t_env_escaped /\ k_K \notin DOMAIN environ)
    => result = Ok(t_x)

-----------------------------------------------------------------------------
(* C26: inline ref tables that point at themselves or at each other *)

\* {replace: ref, of: [key]}
RefTo(key) == With(Dict1(s_replace, VStr(s_ref)), s_of, VList(<<VStr(key)>>))

c_ref_self   == Dict1(k_a, RefTo(k_a))                        \* a = {replace: ref, of: [a]}
c_ref_mutual == Dict2(k_a, RefTo(k_b), k_b, RefTo(k_a))
c_ref_item   == Dict1(k_a, VList(<<v_v, RefTo(k_a)>>))        \* a = ["v", {.. of: [a]}]
c_ref_leaf   == Dict2(k_a, RefTo(k_b), k_b, VStr(<<"w">>))
c_ref_list   == Dict2(k_a, RefTo(k_b), k_b, VList(<<v_v, VList(<<v_u>>)>>))
c_ref_none   == Dict1(k_a, RefTo(k_b))

WalkConfigs ==
    {c_ref_self, c_ref_mutual, c_ref_item, c_ref_leaf, c_ref_list, c_ref_none}

\* the whole tree (substitute_config), its value at a, that value in a list
WalkArgs(c) == {c, c.val[k_a], ListAround(c.val[k_a]), VList(<<c, c.val[k_a]>>)}

InitWalk ==
    \E c \in WalkConfigs, p \in ValuePosargs, e \in ValueEnvirons :
        \E v \in WalkArgs(c) : EnterValue(v, c, p, e)

\* substitute_value and substitute_config on trees with inline ref tables
SpecWalk == InitWalk /\ [][NextValue]_vars

\* C26: no call of substitute_value or substitute_config ends in an exception,
\* also when an inline ref table points at the position it occupies or two
\* point at each other: every call returns.
C26_WalkTerminates ==
    /\ vpc # "raised"
    /\ vpc = "done" => vresult.exc = ""

-----------------------------------------------------------------------------
(* C27: chains of references under substitute_config *)

MaxChain == 11

k_r == <<"r">>
k_t == <<"t">>

Letters == <<"a", "b", "c", "d", "e", "f", "g", "h", "i", "j", "k", "l", "m", "n">>
Key(i) == <<Letters[i]>>

\* a placeholder for key i of the chain, in one of three forms
LinkText(style, i) ==
    CASE style = "plain"   -> Placeholder(Key(i))                       \* {b}
      [] style = "section" -> SectionText(s_tox, Key(i))                \* {[tox]b}
      [] style = "dotted"  -> Placeholder(k_t \o <<".">> \o Key(i))     \* {t.b}

RECURSIVE ChainFrom(_, _, _, _)
\* keys i..n each referring to the next, key n + 1 the literal
ChainFrom(i, n, style, lit) ==
    IF i = n + 1 THEN Key(i) :> VStr(lit)
    ELSE (Key(i) :> VStr(LinkText(style, i + 1))) @@ ChainFrom(i + 1, n, style, lit)

\* the chain at top level, or in the table t for dotted references; r is an
\* inline ref table that points at the head of the chain
ChainConfig(n, style, lit) ==
    IF style = "dotted"
    THEN VDict((k_t :> VDict(ChainFrom(1, n, style, lit)))
               @@ (k_r :> With(Dict1(s_replace, VStr(s_ref)), s_of,
                               VList(<<VStr(k_t), VStr(Key(1))>>))))
    ELSE VDict(ChainFrom(1, n, style, lit) @@ (k_r :> RefTo(Key(1))))

ChainConfigs ==
    {ChainConfig(n, style, lit) :
        n \in 1..MaxChain, style \in {"plain", "section", "dotted"},
        lit \in {<<"v">>, <<"w", " ", "w">>}}

\* the chain of the call's config, and the number of its references
ChainIn(c) == IF k_t \in DOMAIN c.val THEN c.val[k_t].val
              ELSE [k \in DOMAIN c.val \ {k_r} |-> c.val[k]]
ChainOf == ChainIn(config)
Links == Cardinality(DOMAIN ChainOf) - 1
LiteralOf == ChainOf[Key(Links + 1)].val

\* the substituted chain
ChainOut == IF k_t \in DOMAIN config.val THEN vresult.val.val[k_t].val
            ELSE vresult.val.val

InitChain ==
    \E c \in ChainConfigs :
        \/ EnterValue(c, c, <<>>, <<>>)
        \/ Enter(ChainIn(c)[Key(1)].val, c, <<>>, <<>>, FALSE)

\* substitute_config on a chain, and substitute_string on the leaf at its head
SpecChain == InitChain /\ [][Iterate \/ Return \/ ValueCall]_vars

\* C27: under substitute_config every leaf is resolved against the tree the
\* caller gave: round j on the leaf at the head of the chain gives the
\* unsubstituted value of key j + 1; a leaf from which at most 10 references
\* lead to the literal ends as the literal, and so does the inline ref table
\* that points at the head of a chain of at most 9.
C27_ChainResolvedFromOriginal ==
    /\ (pc \in {"loop", "done"} /\ iter >= 1 /\ iter <= Links)
         => value = ChainOf[Key(iter + 1)].val
    /\ (pc = "done" /\ Links <= 10) => result = Ok(LiteralOf)
    /\ vpc = "done"
         => /\ \A i \in 1..(Links + 1) :
                  Links - i + 1 <= 10 => ChainOut[Key(i)] = VStr(LiteralOf)
            /\ Links + 1 <= 10 => vresult.val.val[k_r] = VStr(LiteralOf)
            /\ arg = config

\* a chain of exactly 10 references, substituted whole
C27_Witness ==
    /\ vpc = "done" /\ arg = config
    /\ Links = 10
    /\ k_t \notin DOMAIN config.val
    /\ config.val[Key(1)] = VStr(Placeholder(Key(2)))
    /\ ChainOut[Key(1)] = VStr(LiteralOf)

-----------------------------------------------------------------------------
(* C28: the order of the rules *)

v_x == VStr(<<"x">>)

\* top-level string keys named like the built-in kinds, beside k, a.b and a
c_kinds ==
    VDict((s_env :> v_x) @@ (s_posargs :> v_x) @@ (s_tty :> v_x)
          @@ (s_pathsep :> v_x) @@ (s_sep :> v_x)
          @@ (<<":">> :> v_x) @@ (<<"/">> :> v_x)
          @@ (IndexInner(0) :> v_x)
          @@ (<<"[", "t", "o", "x", "]", "k">> :> v_x)
          @@ (k_a_dot_b :> v_x)
          @@ (k_k :> v_v)
          @@ (k_a :> Dict1(k_b, v_v)))

KindConfigs == {EmptyDict, c_kinds, Dict1(s_posargs, v_x), Dict1(s_env, v_x)}

t_env_bare == Placeholder(s_env)                                \* {env}
t_tty_bare == Placeholder(s_tty)                                \* {tty}
t_tty_Y_N  == TtyText(<<"Y">>, <<"N">>)                         \* {tty:Y:N}

KindTexts ==
    {t_posargs, PosargsDefaultText(<<"d">>), IndexText(0),
     t_env_bare, EnvText(k_K), EnvDefaultText(k_K, <<"d">>),
     t_tty_bare, t_tty_Y_N,
     Placeholder(<<":">>), Placeholder(<<"/">>), Placeholder(s_pathsep), Placeholder(s_sep),
     SectionText(s_tox, k_k), Placeholder(k_a_dot_b), Placeholder(k_k)}

InitKinds ==
    \E t \in KindTexts, c \in KindConfigs, p \in PlainPosargs,
       e \in {<<>>, (k_K :> <<"j">>)}, tty \in BOOLEAN :
        Enter(t, c, p, e, tty)

\* substitute_string where config has keys named like the built-in kinds
SpecKinds == InitKinds /\ [][NextCall]_vars

SetOr(env, key, otherwise) == IF key \in DOMAIN env THEN env[key] ELSE otherwise

\* what the text of one placeholder gives by the order of the rules, the
\* config consulted only by the section, dotted and plain-key rules
ByPrecedence ==
    CASE text = t_posargs -> Join(<<" ">>, posargs)
      [] text = PosargsDefaultText(<<"d">>)
           -> IF posargs # <<>> THEN Join(<<" ">>, posargs) ELSE <<"d">>
      [] text = IndexText(0) -> IF posargs # <<>> THEN posargs[1] ELSE <<>>
      [] text = t_env_bare -> t_env_bare
      [] text = EnvText(k_K) -> SetOr(environ, k_K, <<>>)
      [] text = EnvDefaultText(k_K, <<"d">>) -> SetOr(environ, k_K, <<"d">>)
      [] text = t_tty_bare -> <<>>
      [] text = t_tty_Y_N -> IF isatty THEN <<"Y">> ELSE <<"N">>
      [] text \in {Placeholder(<<":">>), Placeholder(s_pathsep)} -> os_pathsep
      [] text \in {Placeholder(<<"/">>), Placeholder(s_sep)} -> os_sep
      [] text = SectionText(s_tox, k_k) -> StrOrText(Child(config, k_k))
      [] text = Placeholder(k_a_dot_b)
           -> IF Child(Child(config, k_a), k_b).tag = "str"
              THEN Child(Child(config, k_a), k_b).val
              ELSE StrOrText(Child(config, k_a_dot_b))
      [] text = Placeholder(k_k) -> StrOrText(Child(config, k_k))

\* C28: one placeholder is resolved by the first rule that applies, in the
\* order section reference, pathsep and sep, env, posargs and posargs[...],
\* tty, dotted reference, plain key: a top-level string key named env,
\* posargs, tty, pathsep, sep, : or / is never read; with config
\* {posargs: "x"} the text {posargs} gives the joined arguments or nothing,
\* with config {env: "x"} the text {env} stays as it is.
C28_RulePrecedence ==
    /\ pc # "raised"
    /\ pc = "done" => result = Ok(ByPrecedence)
    /\ (pc = "done" /\ text = t_posargs /\ config = Dict1(s_posargs, v_x))
         => result = Ok(Join(<<" ">>, posargs))
    /\ (pc = "done" /\ text = t_env_bare /\ config = Dict1(s_env, v_x))
         => result = Ok(t_env_bare)

\* {posargs} with no arguments where config has the string key posargs
C28_Witness ==
    /\ pc = "done" /\ text = t_posargs
    /\ config = Dict1(s_posargs, v_x) /\ posargs = <<>>
    /\ result = Ok(<<>>)

-----------------------------------------------------------------------------
(* C29: section references on a tree as the INI readers return it *)

s_testenv_py == s_testenv_ \o k_py                             \* testenv:py

IniSections == {s_tox, s_testenv, s_testenv_py}

\* keys a placeholder may name: options, and names that are sections too
IniKeys == {k_k, k_m, s_tox, s_testenv}

\* {[section]key}, alone and within other text
IniLeaves ==
    {SectionText(section, key) : section \in IniSections, key \in IniKeys}
        \cup {<<"a", " ">> \o SectionText(section, k_k) \o <<" ", "b">> :
                 section \in IniSections}

\* result[section] = dict(parser[section]): every section a table of strings
IniSection(leaf) == VDict((k_k :> v_v) @@ (k_m :> VStr(leaf)))

IniTree(sections, leaf) == VDict([section \in sections |-> IniSection(leaf)])

IniTrees ==
    {IniTree(sections, leaf) :
        sections \in (SUBSET IniSections) \ {{}}, leaf \in IniLeaves}

InitIni == \E c \in IniTrees : EnterValue(c, c, <<>>, <<>>)

\* substitute_config on the tree of an INI file
SpecIni == InitIni /\ [][ValueCall]_vars

====
